---------------------------- MODULE Spec2Model ----------------------------
(*
  Model of the event-ingestion pipeline and the route-proximity matcher of
  kt-demo-alarm (app/services/crawling_service.py, app/utils/geo_utils.py).

  Specifications
    Spec       the events table under a sequence of synchronization runs
               (CrawlingService._sync_events_to_db), each run being one
               transaction over an arbitrary event list.
    SpecIdem   one event list synchronized twice in a row against a store.
*)
EXTENDS Integers, Sequences, FiniteSets, TLC

(***************************************************************************)
(* Bounds of the model.                                                    *)
(***************************************************************************)
NumPlaces == 2        \* distinct location_name values
NumTitles == 2        \* distinct title values
NumDays == 2          \* distinct calendar days
MaxBatch == 2         \* longest event list handed to one run
MaxInitRows == 0      \* rows already stored before the first modelled run
NumDates == 2         \* distinct dates of raw rows
MaxSmpa == 1          \* rows of the bulletin source
MaxSpatic == 1        \* rows of the table source
MaxPlaces == 2        \* place tokens of one raw row
MaxRoute == 2         \* vertices of a route polyline
MaxBatchRows == 3     \* SpecBatch: longest event list of the run
MaxPieces == 3        \* SpecNormalize: pieces joined into one place name
MaxTextPieces == 4    \* SpecParse: pieces joined into one bulletin text
MaxRows == 2          \* runs that would store more rows than this are not explored

(***************************************************************************)
(* Events as built by _convert_raw_events_to_db_format.                    *)
(* A start_date "YYYY-MM-DD HH:MM:00" is the pair <<day, "HH:MM">>.        *)
(***************************************************************************)
DEFAULT_LATITUDE == 375709      \* 37.5709  in 1e-4 degrees
DEFAULT_LONGITUDE == 1269769    \* 126.9769 in 1e-4 degrees

Places == 1..NumPlaces
Titles == 1..NumTitles
Days == 1..NumDays
Clock == {"09:00"}
StartTimes == {"09:00", "10:00"}

StartDates == Days \X Clock

MakeEvent(title, location_name, latitude, longitude, start_date) ==
    [title |-> title,
     location_name |-> location_name,
     latitude |-> latitude,
     longitude |-> longitude,
     start_date |-> start_date,
     status |-> "active"]

Events ==
    {MakeEvent(t, p, DEFAULT_LATITUDE, DEFAULT_LONGITUDE, s) :
        t \in Titles, p \in Places, s \in StartDates}

SeqsUpTo(S, n) == UNION {[1..k -> S] : k \in 0..n}

EventLists == SeqsUpTo(Events, MaxBatch)

(***************************************************************************)
(* SQLite DATE(): the calendar-day part of a datetime text.                *)
(***************************************************************************)
DATE(start_date) == start_date[1]

VARIABLES
    store,      \* committed rows of the events table, in rowid order
    pc,         \* "idle", or "loop" while _sync_events_to_db iterates
    work,       \* the running call: rows its connection sees, and its counts
    result,     \* outcome of the latest completed _sync_events_to_db call
    batch,      \* SpecIdem: the event list that is synchronized twice
    nrun,       \* SpecIdem: number of runs made so far
    first,      \* SpecIdem: outcome and store of the first run
    smpa_list,  \* SpecMerge: rows of the bulletin source
    spatic_list,\* SpecMerge: rows of the table source
    merged,     \* SpecMerge: value returned by _merge_and_deduplicate
    mpc,        \* SpecMerge: "input" before the merge, "done" after it
    route_coordinates,  \* SpecRoute: polyline vertices (polyline test)
    start_pt,   \* SpecRoute: route origin (straight-line test)
    end_pt,     \* SpecRoute: route destination (straight-line test)
    event_pt,   \* SpecRoute: the event point
    threshold_meters,   \* SpecRoute: the threshold argument
    gpc,        \* SpecRoute: "polyline" or "straight" to do, then "done"
    is_near,    \* SpecRoute: [fn, value] returned by the test
    raw_row,    \* SpecGeocode: the raw row being converted
    gpos,       \* SpecGeocode: position in the conversion of the row
    candidates, \* SpecGeocode: candidate queries of _kakao_geocode_multi
    cnext,      \* SpecGeocode: index of the candidate the loop is at
    issued,     \* SpecGeocode: queries sent so far, with their responses
    geocoded,   \* SpecGeocode: value returned by _kakao_geocode_multi
    new_events, \* SpecGeocode, SpecCrawl: events built by the conversion
    fetched,    \* SpecCrawl: how each source fetcher ended
    cpc,        \* SpecCrawl: position in crawl_and_sync_events
    report,     \* SpecCrawl: value returned by crawl_and_sync_events
    before,     \* SpecBatch: the store when the run started
    faults,     \* SpecBatch: the statements that raised during the run
    nplace,     \* SpecNormalize: the place name given to the normalizer
    nonce,      \* SpecNormalize: _normalize_place_name(nplace)
    ntwice,     \* SpecNormalize: _normalize_place_name applied to nonce
    npc,        \* SpecNormalize: number of applications made
    raw_text,   \* SpecParse: the text extracted from the bulletin
    parsed,     \* SpecParse: rows returned by _parse_pdf
    ppc,        \* SpecParse: "input" before the call, "done" after it
    net_call,   \* SpecNet: the function called and what the network answers
    net_attempt, \* SpecNet: requests sent so far
    net_waits,  \* SpecNet: the sleeps made between requests, in seconds
    net_ret,    \* SpecNet: what the function returned, Pending before
    alarm_tasks,    \* SpecAlarm: the alarm_tasks table, by task_id
    alarm_last,     \* SpecAlarm: the latest call, its return value, the table before it
    alarm_updated,  \* SpecAlarm: task_ids an UPDATE has matched so far
    alarm_clock,    \* SpecAlarm: calls made so far (datetime.now() of the next)
    rc_users,       \* SpecRouteCheck: the users with a registered route, in query order
    rc_events,      \* SpecRouteCheck: points of the active events, in query order
    rc_found,       \* SpecRouteCheck: per user checked, what check_route_events did
    rc_groups,      \* SpecRouteCheck: grouped_users, in insertion order
    rc_sent,        \* SpecRouteCheck: the send_bulk_alert calls made so far
    rc_pc,          \* SpecRouteCheck: "check", "send" or "done"
    cv_rows,        \* SpecConvert: the raw rows given to the conversion
    cv_events,      \* SpecConvert: the events the conversion returned
    cv_store,       \* SpecConvert: the events table after the run
    cv_result,      \* SpecConvert: the counts of _sync_events_to_db
    cv_pc,          \* SpecConvert: "convert", "sync" or "done"
    tb_rows,        \* SpecTable: the data rows of the detail table, as cell texts
    tb_groups,      \* SpecTable: the groups returned by _parse_detail_to_groups
    tb_pc,          \* SpecTable: "input" before the call, "done" after it
    cc_store,       \* SpecConcurrent: the committed rows of the events table
    cc_pc,          \* SpecConcurrent: where each run is: idle, crawling, crawled, loop, done
    cc_events,      \* SpecConcurrent: new_events of each run
    cc_work,        \* SpecConcurrent: what each run's connection sees, and its counters
    cc_result,      \* SpecConcurrent: what each run's synchronization returned
    cc_loop,        \* SpecConcurrent: the run the event loop is executing, if any
    bk_users,       \* SpecBulk: user_ids
    bk_size,        \* SpecBulk: batch_size
    bk_bot,         \* SpecBulk: whether settings.BOT_ID is set
    bk_pc,          \* SpecBulk: input, batch (top of the loop), gather (awaiting the batch), done
    bk_i,           \* SpecBulk: the loop variable i, the number of user ids before the batch
    bk_sends,       \* SpecBulk: per position of user_ids, the calls of send_to_user made for it
    bk_out,         \* SpecBulk: per position of user_ids, how its send ended (none: not yet)
    bk_count,       \* SpecBulk: success_count and fail_count
    bk_result       \* SpecBulk: the returned dict

syncVars == <<store, pc, work, result, batch, nrun, first>>
mergeVars == <<smpa_list, spatic_list, merged, mpc>>
routeVars == <<route_coordinates, start_pt, end_pt, event_pt,
               threshold_meters, gpc, is_near>>
geocodeVars == <<raw_row, gpos, candidates, cnext, issued, geocoded, new_events>>
crawlVars == <<fetched, cpc, report>>
batchVars == <<before, faults>>
textVars == <<nplace, nonce, ntwice, npc, raw_text, parsed, ppc>>
netVars == <<net_call, net_attempt, net_waits, net_ret>>
alarmVars == <<alarm_tasks, alarm_last, alarm_updated, alarm_clock>>
checkVars == <<rc_users, rc_events, rc_found, rc_groups, rc_sent, rc_pc>>
convVars == <<cv_rows, cv_events, cv_store, cv_result, cv_pc>>
tableVars == <<tb_rows, tb_groups, tb_pc>>
concVars == <<cc_store, cc_pc, cc_events, cc_work, cc_result, cc_loop>>
bulkVars == <<bk_users, bk_size, bk_bot, bk_pc, bk_i, bk_sends, bk_out,
        bk_count, bk_result>>
moreVars == <<alarmVars, checkVars, convVars, tableVars, concVars, bulkVars>>
coreVars == <<syncVars, mergeVars, routeVars, geocodeVars, crawlVars, batchVars,
              textVars, netVars>>
otherThanAlarm == <<coreVars, checkVars, convVars, tableVars, concVars,
        bulkVars>>
otherThanCheck == <<coreVars, alarmVars, convVars, tableVars, concVars,
        bulkVars>>
otherThanConv == <<coreVars, alarmVars, checkVars, tableVars, concVars,
        bulkVars>>
otherThanTable == <<coreVars, alarmVars, checkVars, convVars, concVars,
        bulkVars>>
otherThanConc == <<coreVars, alarmVars, checkVars, convVars, tableVars,
        bulkVars>>
otherThanBulk == <<coreVars, alarmVars, checkVars, convVars, tableVars,
        concVars>>
vars == <<syncVars, mergeVars, routeVars, geocodeVars, crawlVars, batchVars,
          textVars, netVars, moreVars>>

(* inserted_count, duplicate_count, error_count = 0 over the given rows. *)
Counters(rows) ==
    [rows |-> rows, inserted |-> 0, duplicate |-> 0, error |-> 0]

NoWork == Counters(<<>>)

NoResult ==
    [inserted |-> 0, duplicate |-> 0, error |-> 0, raised |-> FALSE]

Raised ==
    [inserted |-> 0, duplicate |-> 0, error |-> 0, raised |-> TRUE]

SyncIdle ==
    /\ store = <<>>
    /\ pc = "idle"
    /\ work = NoWork
    /\ result = NoResult
    /\ batch = <<>>
    /\ nrun = 0
    /\ first = NoWork

MergeIdle ==
    /\ smpa_list = <<>>
    /\ spatic_list = <<>>
    /\ merged = <<>>
    /\ mpc = "idle"

NotCalled == [fn |-> "none", value |-> FALSE]

RouteIdle ==
    /\ route_coordinates = <<>>
    /\ start_pt = 0
    /\ end_pt = 0
    /\ event_pt = 0
    /\ threshold_meters = 0
    /\ gpc = "idle"
    /\ is_near = NotCalled

(* The pair (None, None) returned when no candidate is accepted. *)
NoCoordinates == [found |-> FALSE, y |-> 0, x |-> 0]

GeocodeIdle ==
    /\ raw_row = <<>>
    /\ gpos = "idle"
    /\ candidates = <<>>
    /\ cnext = 0
    /\ issued = <<>>
    /\ geocoded = NoCoordinates
    /\ new_events = <<>>

NoFaults == [failAt |-> {}, txFail |-> FALSE]

BatchIdle ==
    /\ before = <<>>
    /\ faults = NoFaults

Pending == "pending"
NoCall == [fn |-> "none", plan |-> <<>>]

NoAlarmCall == [op |-> "none"]

AlarmIdle ==
    /\ alarm_tasks = <<>>
    /\ alarm_last = NoAlarmCall
    /\ alarm_updated = {}
    /\ alarm_clock = 0

CheckIdle ==
    /\ rc_users = <<>>
    /\ rc_events = <<>>
    /\ rc_found = <<>>
    /\ rc_groups = <<>>
    /\ rc_sent = <<>>
    /\ rc_pc = "idle"

ConvIdle ==
    /\ cv_rows = <<>>
    /\ cv_events = <<>>
    /\ cv_store = <<>>
    /\ cv_result = NoResult
    /\ cv_pc = "idle"

TableIdle ==
    /\ tb_rows = <<>>
    /\ tb_groups = <<>>
    /\ tb_pc = "idle"

ConcIdle ==
    /\ cc_store = <<>>
    /\ cc_pc = <<>>
    /\ cc_events = <<>>
    /\ cc_work = <<>>
    /\ cc_result = <<>>
    /\ cc_loop = "none"

BulkIdle ==
    /\ bk_users = <<>>
    /\ bk_size = 0
    /\ bk_bot = FALSE
    /\ bk_pc = "idle"
    /\ bk_i = 0
    /\ bk_sends = <<>>
    /\ bk_out = <<>>
    /\ bk_count = <<>>
    /\ bk_result = <<>>

MoreIdle ==
    /\ AlarmIdle
    /\ CheckIdle
    /\ ConvIdle
    /\ TableIdle
    /\ ConcIdle
    /\ BulkIdle

NetIdle ==
    /\ net_call = NoCall
    /\ net_attempt = 0
    /\ net_waits = <<>>
    /\ net_ret = Pending

TextIdle ==
    /\ nplace = <<>>
    /\ nonce = <<>>
    /\ ntwice = <<>>
    /\ npc = 0
    /\ raw_text = <<>>
    /\ parsed = <<>>
    /\ ppc = "idle"

NotFetched == [smpa |-> "pending", spatic |-> "pending"]

NoReport == [success |-> FALSE, status |-> "none", total_crawled |-> 0,
             inserted_count |-> 0]

CrawlIdle ==
    /\ fetched = NotFetched
    /\ cpc = "idle"
    /\ report = NoReport

CoreIdle ==
    /\ SyncIdle /\ MergeIdle /\ RouteIdle /\ GeocodeIdle /\ CrawlIdle
    /\ BatchIdle /\ TextIdle /\ NetIdle

IdleButAlarm ==
    /\ CoreIdle
    /\ CheckIdle
    /\ ConvIdle
    /\ TableIdle
    /\ ConcIdle
    /\ BulkIdle

IdleButCheck ==
    /\ CoreIdle
    /\ AlarmIdle
    /\ ConvIdle
    /\ TableIdle
    /\ ConcIdle
    /\ BulkIdle

IdleButConv ==
    /\ CoreIdle
    /\ AlarmIdle
    /\ CheckIdle
    /\ TableIdle
    /\ ConcIdle
    /\ BulkIdle

IdleButTable ==
    /\ CoreIdle
    /\ AlarmIdle
    /\ CheckIdle
    /\ ConvIdle
    /\ ConcIdle
    /\ BulkIdle

IdleButConc ==
    /\ CoreIdle
    /\ AlarmIdle
    /\ CheckIdle
    /\ ConvIdle
    /\ TableIdle
    /\ BulkIdle

IdleButBulk ==
    /\ CoreIdle
    /\ AlarmIdle
    /\ CheckIdle
    /\ ConvIdle
    /\ TableIdle
    /\ ConcIdle

(***************************************************************************)
(* The duplicate check of _sync_events_to_db:                              *)
(*   SELECT id FROM events                                                 *)
(*   WHERE (location_name = ? AND DATE(start_date) = DATE(?))              *)
(*      OR (title = ? AND DATE(start_date) = DATE(?)) LIMIT 1              *)
(***************************************************************************)
MatchesLocationOnly(row, event) ==
    row.location_name = event.location_name
        /\ DATE(row.start_date) = DATE(event.start_date)

Matches(row, event) ==
    \/ row.location_name = event.location_name
        /\ DATE(row.start_date) = DATE(event.start_date)
    \/ row.title = event.title
        /\ DATE(row.start_date) = DATE(event.start_date)

ExistingFirstRowOnly(rows, event) ==
    rows # <<>> /\ Matches(rows[1], event)

Existing(rows, event) ==
    \E i \in 1..Len(rows) : Matches(rows[i], event)

(* INSERT INTO events (...) VALUES (...): the id is AUTOINCREMENT. *)
InsertRow(rows, event) ==
    Append(rows, [id |-> Len(rows) + 1] @@ event)

(***************************************************************************)
(* One iteration of the loop of _sync_events_to_db.  fails: a statement of *)
(* this iteration raises sqlite3.Error; the row is counted as an error and *)
(* the loop continues.                                                     *)
(***************************************************************************)
SyncRowAborting(acc, event, fails) ==
    IF fails THEN [acc EXCEPT !.rows = SubSeq(@, 1, Len(@) - acc.inserted),
                              !.error = @ + 1]
    ELSE IF Existing(acc.rows, event) THEN [acc EXCEPT !.duplicate = @ + 1]
    ELSE [acc EXCEPT !.rows = InsertRow(@, event), !.inserted = @ + 1]

SyncRowRefreshing(acc, event, fails) ==
    IF fails THEN [acc EXCEPT !.error = @ + 1]
    ELSE IF Existing(acc.rows, event)
        THEN [acc EXCEPT !.duplicate = @ + 1,
                         !.rows = [i \in 1..Len(@) |->
                                     IF Matches(@[i], event)
                                         THEN [id |-> @[i].id] @@ event
                                     ELSE @[i]]]
    ELSE [acc EXCEPT !.rows = InsertRow(@, event), !.inserted = @ + 1]

SyncRow(acc, event, fails) ==
    IF fails THEN [acc EXCEPT !.error = @ + 1]
    ELSE IF Existing(acc.rows, event) THEN [acc EXCEPT !.duplicate = @ + 1]
    ELSE [acc EXCEPT !.rows = InsertRow(@, event), !.inserted = @ + 1]

(* The loop from row i on; failAt is the set of failing positions. *)
RECURSIVE SyncLoop(_, _, _, _)
SyncLoop(acc, events, i, failAt) ==
    IF i > Len(events) THEN acc
    ELSE SyncLoop(SyncRow(acc, events[i], i \in failAt), events, i + 1, failAt)

(* What the call returns after db.commit(). *)
ResultOf(acc) ==
    [inserted |-> acc.inserted, duplicate |-> acc.duplicate,
     error |-> acc.error, raised |-> FALSE]

(***************************************************************************)
(* _sync_events_to_db(events, db) as a whole.  txFail: BEGIN or COMMIT     *)
(* raises; the transaction is rolled back and the exception re-raised.     *)
(***************************************************************************)
SyncEventsToDbNoRollback(rows, events, failAt, txFail) ==
    IF events = <<>> THEN [rows |-> rows, result |-> NoResult]
    ELSE LET acc == SyncLoop(Counters(rows), events, 1, failAt)
         IN  [rows |-> acc.rows,
              result |-> IF txFail THEN Raised ELSE ResultOf(acc)]

SyncEventsToDb(rows, events, failAt, txFail) ==
    IF events = <<>> THEN [rows |-> rows, result |-> NoResult]
    ELSE IF txFail THEN [rows |-> rows, result |-> Raised]
    ELSE LET acc == SyncLoop(Counters(rows), events, 1, failAt)
         IN  [rows |-> acc.rows, result |-> ResultOf(acc)]

(***************************************************************************)
(* No two rows agree on (location_name, date) or on (title, date).         *)
(***************************************************************************)
KeysUnique(rows) ==
    \A i, j \in 1..Len(rows) :
        i # j =>
            /\ ~ (rows[i].location_name = rows[j].location_name
                    /\ DATE(rows[i].start_date) = DATE(rows[j].start_date))
            /\ ~ (rows[i].title = rows[j].title
                    /\ DATE(rows[i].start_date) = DATE(rows[j].start_date))

RECURSIVE AsRows(_, _)
AsRows(events, rows) ==
    IF events = <<>> THEN rows
    ELSE AsRows(Tail(events), InsertRow(rows, Head(events)))

InitialStores ==
    {rows \in {AsRows(es, <<>>) : es \in SeqsUpTo(Events, MaxInitRows)} :
        KeysUnique(rows)}

(***************************************************************************)
(* The Merger: CrawlingService._merge_and_deduplicate.                     *)
(*                                                                         *)
(* A raw row is [ymd, start_time, places, headcount, remark]: ymd stands   *)
(* for the fixed-width texts of the keys "년", "월", "일" together, places *)
(* for "장소_원본", headcount for "인원" and remark for "비고".  A place   *)
(* token is its sequence of characters.                                    *)
(***************************************************************************)
PlaceTokens ==
    {<<"G">>,                   \* a place
     <<"S", "Y">>,              \* another place
     <<"S", " ", "Y">>,         \* the same with a blank inside
     <<"S", "Y", "\\", "s">>}   \* the same followed by a backslash and an s

RawRows(remark, headcount) ==
    [ymd : 1..NumDates,
     start_time : StartTimes,
     places : SeqsUpTo(PlaceTokens, MaxPlaces),
     headcount : {headcount},
     remark : {remark}]

SmpaRows == RawRows("SMPA", "500")
SpaticRows == RawRows("SPATIC", "")

(* Removing every white-space character: re.sub(r'\s+', '', p). *)
StripWhitespace(p) == SelectSeq(p, LAMBDA c : c # " ")

(***************************************************************************)
(* re.sub(r'\\s+', '', p) as written in the key of the Merger: the raw     *)
(* pattern is a backslash followed by one or more letters s, so this       *)
(* removes every backslash-s run and leaves white space in place.          *)
(***************************************************************************)
RECURSIVE DropLeadingS(_)
DropLeadingS(p) ==
    IF p # <<>> /\ Head(p) = "s" THEN DropLeadingS(Tail(p)) ELSE p

RECURSIVE SubBackslashS(_)
SubBackslashS(p) ==
    IF p = <<>> THEN <<>>
    ELSE IF Head(p) = "\\" /\ Len(p) >= 2 /\ p[2] = "s"
        THEN SubBackslashS(DropLeadingS(Tail(p)))
    ELSE <<Head(p)>> \o SubBackslashS(Tail(p))

(* key = f"{y}{m}{d}_{start}_{re.sub(r'\\s+', '', p)}" *)
MergeKey(row, p) == <<row.ymd, row.start_time, SubBackslashS(p)>>

(* The inner loop over the places of one row. *)
RECURSIVE UniquePlaces(_, _, _, _, _)
UniquePlaces(row, places, k, seen, unique_places) ==
    IF k > Len(places)
        THEN [seen |-> seen, unique_places |-> unique_places]
    ELSE IF MergeKey(row, places[k]) \notin seen
        THEN UniquePlaces(row, places, k + 1,
                          seen \cup {MergeKey(row, places[k])},
                          Append(unique_places, places[k]))
    ELSE UniquePlaces(row, places, k + 1, seen, unique_places)

(* every row kept, with or without places *)
KeepRowAlways(unique_places) == TRUE

(* if unique_places: *)
KeepRow(unique_places) == unique_places # <<>>

(* The outer loop over combined = smpa_list + spatic_list. *)
RECURSIVE MergeLoop(_, _, _, _)
MergeLoop(combined, i, seen, out) ==
    IF i > Len(combined) THEN out
    ELSE LET row == combined[i]
             r == UniquePlaces(row, row.places, 1, seen, <<>>)
         IN  IF KeepRow(r.unique_places)
                 THEN MergeLoop(combined, i + 1, r.seen,
                                Append(out,
                                       [row EXCEPT !.places = r.unique_places]))
             ELSE MergeLoop(combined, i + 1, r.seen, out)

MergeFirstSourceOnly(smpa, spatic) == MergeLoop(smpa, 1, {}, <<>>)

MergeAndDeduplicate(smpa, spatic) == MergeLoop(smpa \o spatic, 1, {}, <<>>)

(***************************************************************************)
(* The route matcher: app/utils/geo_utils.py.                              *)
(*                                                                         *)
(* A point is an index into Coordinates (latitude, longitude in 1e-4       *)
(* degrees).  DistanceMm[p][q] is haversine_distance evaluated on the two  *)
(* coordinates and rounded up to whole millimetres, so that for a whole    *)
(* number of metres t, haversine_distance(p, q) <= t exactly when          *)
(* DistanceMm[p][q] <= 1000 * t.                                           *)
(***************************************************************************)
Coordinates ==
    << <<374979, 1270276>>,     \* 1 Gangnam station
       <<375006, 1270364>>,     \* 2 Yeoksam station
       <<351796, 1290756>>,     \* 3 Busan
       <<374979, 1270208>>,     \* 4 600 m west of 1
       <<374993, 1270320>>,     \* 5 between 1 and 2
       <<375028, 1270308>>,     \* 6 beside the segment 1-2
       <<375060, 1270290>> >>   \* 7 further beside the segment 1-2

Points == 1..Len(Coordinates)

DistanceMm ==
    << <<0, 832348, 316368962, 599892, 418215, 613642, 909107>>,
       <<832348, 0, 316155934, 1408565, 414198, 551256, 886939>>,
       <<316368962, 316155934, 0, 316722361, 316266680, 316643860, 317025141>>,
       <<599892, 1408565, 316722361, 0, 1000236, 1036862, 1155194>>,
       <<418215, 414198, 316266680, 1000236, 0, 403323, 790614>>,
       <<613642, 551256, 316643860, 1036862, 403323, 0, 389644>>,
       <<909107, 886939, 317025141, 1155194, 790614, 389644, 0>> >>

haversine_distance(p, q) == DistanceMm[p][q]

DEFAULT_THRESHOLD == 500

Thresholds == {0, DEFAULT_THRESHOLD, 700}

Millimetres(meters) == 1000 * meters

Abs(x) == IF x < 0 THEN 0 - x ELSE x

(* is_point_near_route with both comparisons strict *)
is_point_near_route_strict(s, e, point, threshold) ==
    LET dist_to_start == haversine_distance(s, point)
        dist_to_end == haversine_distance(e, point)
        route_distance == haversine_distance(s, e)
        total_distance == dist_to_start + dist_to_end
    IN  IF Abs(total_distance - route_distance) < Millimetres(threshold)
            THEN TRUE
        ELSE IF dist_to_start < Millimetres(threshold)
                \/ dist_to_end < Millimetres(threshold)
            THEN TRUE
        ELSE FALSE

(* is_point_near_route without the detour test *)
is_point_near_route_endpoints(s, e, point, threshold) ==
    \/ haversine_distance(s, point) <= Millimetres(threshold)
    \/ haversine_distance(e, point) <= Millimetres(threshold)

is_point_near_route(s, e, point, threshold) ==
    LET dist_to_start == haversine_distance(s, point)
        dist_to_end == haversine_distance(e, point)
        route_distance == haversine_distance(s, e)
        total_distance == dist_to_start + dist_to_end
    IN  IF Abs(total_distance - route_distance) <= Millimetres(threshold)
            THEN TRUE
        ELSE IF dist_to_start <= Millimetres(threshold)
                \/ dist_to_end <= Millimetres(threshold)
            THEN TRUE
        ELSE FALSE

(* The loop over route_coordinates from vertex k on. *)
RECURSIVE NearFrom(_, _, _, _)
NearFrom(route, k, event, threshold) ==
    IF k > Len(route) THEN FALSE
    ELSE IF haversine_distance(route[k], event) <= Millimetres(threshold)
        THEN TRUE
    ELSE NearFrom(route, k + 1, event, threshold)

(* is_event_near_route_accurate that gives up after the first vertex *)
is_event_near_route_first_only(route, event, threshold) ==
    IF route = <<>> THEN FALSE
    ELSE haversine_distance(route[1], event) <= Millimetres(threshold)

(* is_event_near_route_accurate with a strict comparison *)
is_event_near_route_strict(route, event, threshold) ==
    \E k \in 1..Len(route) :
        haversine_distance(route[k], event) < Millimetres(threshold)

is_event_near_route_accurate(route, event, threshold) ==
    IF route = <<>> THEN FALSE
    ELSE NearFrom(route, 1, event, threshold)

(***************************************************************************)
(* The geocoder: CrawlingService._kakao_geocode_multi and                  *)
(* _resolve_location_info.                                                 *)
(*                                                                         *)
(* A text is the sequence of its characters, a Hangul syllable being       *)
(* written by its romanization: <<"seo", "ul">> is the home city "서울"    *)
(* and "yeok" is "역".                                                     *)
(***************************************************************************)
HomeCity == <<"seo", "ul">>
Station == <<"yeok">>
UNKNOWN_PLACE == <<"unknown">>       \* "알 수 없는 장소"

LocationNames ==
    {<<"gwang", "hwa", "mun">>,                 \* 광화문
     <<"seo", "ul", "yeok">>,                   \* 서울역
     <<"guk", "hoe", " ", "jeong", "mun">>,     \* 국회 정문
     <<"mun">>}                                 \* 문

Addresses ==
    {<<"seo", "ul", " ", "jong", "no", "gu">>,              \* 서울 종로구
     <<"gyeong", "gi", " ", "seo", "ul", "ro">>,            \* 경기 서울로
     <<"bu", "san", " ", "jung", "gu">>,                    \* 부산 중구
     <<"gyeong", "gi", " ", "go", "yang", " ", "seo", "ul">>,  \* 경기 고양 서울
     <<>>}                                                  \* no address

(* Coordinates a geocoding result carries, in 1e-4 degrees. *)
CityHall == <<375663, 1269779>>
Elsewhere == <<351796, 1290756>>

RECURSIVE LStrip(_)
LStrip(t) == IF t # <<>> /\ Head(t) = " " THEN LStrip(Tail(t)) ELSE t

RECURSIVE RStrip(_)
RStrip(t) ==
    IF t # <<>> /\ t[Len(t)] = " " THEN RStrip(SubSeq(t, 1, Len(t) - 1)) ELSE t

(* str.strip() *)
Strip(t) == RStrip(LStrip(t))

StartsWith(t, pat) == Len(pat) <= Len(t) /\ SubSeq(t, 1, Len(pat)) = pat

EndsWith(t, pat) ==
    Len(pat) <= Len(t) /\ SubSeq(t, Len(t) - Len(pat) + 1, Len(t)) = pat

(* pat in t *)
RECURSIVE Contains(_, _)
Contains(t, pat) ==
    IF Len(t) < Len(pat) THEN FALSE
    ELSE StartsWith(t, pat) \/ Contains(Tail(t), pat)

(* t.replace(pat, "") *)
RECURSIVE Remove(_, _)
Remove(t, pat) ==
    IF t = <<>> THEN <<>>
    ELSE IF StartsWith(t, pat) THEN Remove(SubSeq(t, Len(pat) + 1, Len(t)), pat)
    ELSE <<Head(t)>> \o Remove(Tail(t), pat)

(* t[:n] *)
Prefix(t, n) == SubSeq(t, 1, IF Len(t) < n THEN Len(t) ELSE n)

(* str.split(): the maximal blank-free pieces *)
RECURSIVE SplitFrom(_, _, _)
SplitFrom(t, word, words) ==
    IF t = <<>> THEN (IF word = <<>> THEN words ELSE Append(words, word))
    ELSE IF Head(t) = " "
        THEN SplitFrom(Tail(t), <<>>,
                       IF word = <<>> THEN words ELSE Append(words, word))
    ELSE SplitFrom(Tail(t), Append(word, Head(t)), words)

Split(t) == SplitFrom(t, <<>>, <<>>)

(***************************************************************************)
(* The characters of a place name.  A Hangul syllable is one character,    *)
(* written by its romanization; "CHUL" is the ideograph of the exit mark   *)
(* (U+51FA) and "->", "<->", "<=>" are the three arrows of split_chars.    *)
(***************************************************************************)
Digits == {"0", "1", "2", "3", "4", "5", "6", "7", "8", "9"}
Openers == {"<", "[", "("}
Closers == {">", "]", ")"}
split_chars == {"<=>", "<->", "->", "~"}
(* what neither \w nor \s matches *)
Punctuation == Openers \cup Closers \cup split_chars \cup {".", ",", "-", "/"}

PLACE_NAME_REPLACE_MAP ==
    << [old_name |-> <<"hyo", "ja", "pa", "chul", "so">>,
        new_name |-> <<"cheong", "un", "pa", "chul", "so">>],
       [old_name |-> <<"hyo", "ja", "chi", "an", "sen", "teo">>,
        new_name |-> <<"cheong", "un", "pa", "chul", "so">>],
       [old_name |-> <<"nam", "dae", "mun", "seo">>,
        new_name |-> <<"nam", "dae", "mun", "gyeong", "chal", "seo">>],
       [old_name |-> <<"pa", "i", "naen", "seu">>,
        new_name |-> <<"seo", "ul", "pa", "i", "naen", "seu", "sen", "teo">>],
       [old_name |-> <<"ui", "sa", "dang", "yeok">>,
        new_name |-> <<"guk", "hoe", "ui", "sa", "dang", "yeok">>],
       [old_name |-> <<"sa", "rang", "chae">>,
        new_name |-> <<"cheong", "wa", "dae", " ", "sa", "rang", "chae">>],
       [old_name |-> <<"jeon", "jaeng", "gi", "nyeom", "gwan">>,
        new_name |-> <<"yong", "san", " ",
                       "jeon", "jaeng", "gi", "nyeom", "gwan">>] >>

noise_regex ==
    {<<"dong", "cheuk">>, <<"seo", "cheuk">>, <<"nam", "cheuk">>,
     <<"buk", "cheuk">>, <<"dong", "jjok">>, <<"seo", "jjok">>,
     <<"nam", "jjok">>, <<"buk", "jjok">>, <<"geon", "neo", "pyeon">>,
     <<"maj", "eun", "pyeon">>, <<"yeop">>, <<"bang", "hyang">>,
     <<"bang", "myeon">>, <<"bu", "geun">>, <<"il", "dae">>,
     <<"jin", "ip", "ro">>, <<"sa", "geo", "ri">>, <<"gyo", "cha", "ro">>,
     <<"sam", "geo", "ri">>, <<"o", "geo", "ri">>, <<"chul", "gu">>,
     <<"ip", "gu">>, <<"in", "geun">>, <<"ap">>, <<"dwi">>, <<"an">>,
     <<"bak">>}

(* t[n:] *)
Drop(t, n) == SubSeq(t, n + 1, Len(t))

(* length of the digit run that \d+ takes at the start of t *)
RECURSIVE DigitRun(_)
DigitRun(t) ==
    IF t # <<>> /\ Head(t) \in Digits THEN 1 + DigitRun(Tail(t)) ELSE 0

(* length of the blank run that \s* takes at the start of t *)
RECURSIVE BlankRun(_)
BlankRun(t) == IF t # <<>> /\ Head(t) = " " THEN 1 + BlankRun(Tail(t)) ELSE 0

(* t.replace(old, new) *)
RECURSIVE ReplaceAll(_, _, _)
ReplaceAll(t, old, new) ==
    IF t = <<>> THEN <<>>
    ELSE IF StartsWith(t, old)
        THEN new \o ReplaceAll(Drop(t, Len(old)), old, new)
    ELSE <<Head(t)>> \o ReplaceAll(Tail(t), old, new)

(* Length of the match of \d+(\.\d+)?km at the start of t, 0 for none.     *)
KmMatch(t) ==
    LET whole == DigitRun(t)
        rest == Drop(t, whole)
        frac == IF rest # <<>> /\ Head(rest) = "." /\ DigitRun(Tail(rest)) > 0
                    THEN 1 + DigitRun(Tail(rest)) ELSE 0
    IN  IF whole > 0 /\ StartsWith(Drop(rest, frac), <<"k", "m">>)
            THEN whole + frac + 2
        ELSE 0

(* re.sub(r'\d+(\.\d+)?km', '', t) *)
RECURSIVE SubKm(_)
SubKm(t) ==
    IF t = <<>> THEN <<>>
    ELSE IF KmMatch(t) > 0 THEN SubKm(Drop(t, KmMatch(t)))
    ELSE <<Head(t)>> \o SubKm(Tail(t))

(* index of the first closing bracket of t, 0 for none *)
RECURSIVE FirstIn(_, _)
FirstIn(t, chars) ==
    IF t = <<>> THEN 0
    ELSE IF Head(t) \in chars THEN 1
    ELSE IF FirstIn(Tail(t), chars) = 0 THEN 0
    ELSE 1 + FirstIn(Tail(t), chars)

(* re.sub(r'[<\[\(].*?[>\]\)]', '', t): an opening bracket up to the first *)
(* closing bracket after it, of any of the three kinds.                    *)
RECURSIVE SubBrackets(_)
SubBrackets(t) ==
    IF t = <<>> THEN <<>>
    ELSE IF Head(t) \in Openers /\ FirstIn(Tail(t), Closers) > 0
        THEN SubBrackets(Drop(Tail(t), FirstIn(Tail(t), Closers)))
    ELSE <<Head(t)>> \o SubBrackets(Tail(t))

(* re.sub(r'\(.*$', '', t) *)
TruncateAtParen(t) ==
    IF FirstIn(t, {"("}) = 0 THEN t ELSE SubSeq(t, 1, FirstIn(t, {"("}) - 1)

(* the loop over PLACE_NAME_REPLACE_MAP, from entry k on *)
RECURSIVE ReplaceNames(_, _)
ReplaceNames(t, k) ==
    IF k > Len(PLACE_NAME_REPLACE_MAP) THEN t
    ELSE LET old_name == PLACE_NAME_REPLACE_MAP[k].old_name
             new_name == PLACE_NAME_REPLACE_MAP[k].new_name
         IN  ReplaceNames(IF Contains(t, old_name) /\ ~ Contains(t, new_name)
                              THEN ReplaceAll(t, old_name, new_name)
                          ELSE t,
                          k + 1)

(* re.split(split_chars, t)[0].strip() when a separator occurs *)
SplitDirection(t) ==
    IF FirstIn(t, split_chars) = 0 THEN t
    ELSE Strip(SubSeq(t, 1, FirstIn(t, split_chars) - 1))

(* Length of the match of (\d+)\s*CHUL at the start of t, 0 for none.      *)
ExitMatch(t) ==
    LET num == DigitRun(t)
        gap == BlankRun(Drop(t, num))
    IN  IF num > 0 /\ StartsWith(Drop(t, num + gap), <<"CHUL">>)
            THEN num + gap + 1
        ELSE 0

(* re.sub(r'(\d+)\s*CHUL', r'\1beon-chul-gu', t) *)
RECURSIVE SubExit(_)
SubExit(t) ==
    IF t = <<>> THEN <<>>
    ELSE IF ExitMatch(t) > 0
        THEN SubSeq(t, 1, DigitRun(t)) \o <<"beon", "chul", "gu">>
             \o SubExit(Drop(t, ExitMatch(t)))
    ELSE <<Head(t)>> \o SubExit(Tail(t))

(* re.sub(noise_regex, ' ', t); no word of noise_regex starts another *)
RECURSIVE SubNoise(_)
SubNoise(t) ==
    IF t = <<>> THEN <<>>
    ELSE IF \E w \in noise_regex : StartsWith(t, w)
        THEN LET w == CHOOSE w \in noise_regex : StartsWith(t, w)
             IN  <<" ">> \o SubNoise(Drop(t, Len(w)))
    ELSE <<Head(t)>> \o SubNoise(Tail(t))

(* re.sub(r'[^\w\s\d]', ' ', t) *)
SubPunctuation(t) ==
    [i \in 1..Len(t) |-> IF t[i] \in Punctuation THEN " " ELSE t[i]]

(* re.sub(r'\s+', ' ', t) *)
RECURSIVE CollapseBlanks(_)
CollapseBlanks(t) ==
    IF t = <<>> THEN <<>>
    ELSE IF Head(t) = " "
        THEN <<" ">> \o CollapseBlanks(Drop(t, BlankRun(t)))
    ELSE <<Head(t)>> \o CollapseBlanks(Tail(t))

(***************************************************************************)
(* _normalize_place_name, step by step in the order of the source.         *)
(***************************************************************************)
NormalizePlaceName(place) ==
    LET t1 == Strip(place)
        t2 == Remove(Remove(t1, <<"gu", ")">>), <<"(", "gu", ")">>)
        t3 == SubKm(t2)
        t4 == SubBrackets(t3)
        t5 == TruncateAtParen(t4)
        t6 == ReplaceNames(t5, 1)
        t7 == SplitDirection(t6)
        t8 == SubExit(t7)
        t9 == ReplaceAll(t8, <<"CHUL">>, <<"chul", "gu">>)
        t10 == SubNoise(t9)
        t11 == SubPunctuation(t10)
    IN  Strip(CollapseBlanks(t11))

(***************************************************************************)
(* The bulletin parser.  The text of the bulletin is a sequence of         *)
(* characters; its white space is the blank and the line break.  Offsets   *)
(* are those of Python: the first character is at offset 0 and a span      *)
(* <<s, e>> covers the offsets s .. e - 1.                                 *)
(***************************************************************************)
WhiteSpace == {" ", "\n"}

(* text[s:e] *)
Slice(t, s, e) == SubSeq(t, s + 1, e)

(* length of the run that \s* takes at the start of t *)
RECURSIVE WsRun(_)
WsRun(t) == IF t # <<>> /\ Head(t) \in WhiteSpace THEN 1 + WsRun(Tail(t)) ELSE 0

(* re.sub(r'\s+', '', t) *)
RemoveWs(t) == SelectSeq(t, LAMBDA c : c \notin WhiteSpace)

RECURSIVE LStripWs(_)
LStripWs(t) ==
    IF t # <<>> /\ Head(t) \in WhiteSpace THEN LStripWs(Tail(t)) ELSE t

RECURSIVE RStripWs(_)
RStripWs(t) ==
    IF t # <<>> /\ t[Len(t)] \in WhiteSpace
        THEN RStripWs(SubSeq(t, 1, Len(t) - 1))
    ELSE t

(* str.strip() on the text of the bulletin *)
StripWs(t) == RStripWs(LStripWs(t))

(***************************************************************************)
(* \d{1,2}\s*:\s*\d{2} at the start of t: the offset at which the match    *)
(* ends, 0 for none.  The hour takes both digits of a two-digit run; a run *)
(* of three leaves a digit where the colon is wanted, whichever length is  *)
(* tried.  The steps follow the pattern: the minutes from offset m, the    *)
(* colon at offset c, the hour of the given length.                        *)
(***************************************************************************)
TimeMinutes(t, m) ==
    IF m + 2 <= Len(t) /\ t[m + 1] \in Digits /\ t[m + 2] \in Digits
        THEN m + 2
    ELSE 0

TimeColon(t, c) ==
    IF c < Len(t) /\ t[c + 1] = ":"
        THEN TimeMinutes(t, c + 1 + WsRun(Drop(t, c + 1)))
    ELSE 0

TimeHour(t, hour) ==
    IF hour \in {1, 2} THEN TimeColon(t, hour + WsRun(Drop(t, hour))) ELSE 0

TimeLen(t) == TimeHour(t, DigitRun(t))

(***************************************************************************)
(* TIME_RE at the start of t: the lengths of the group "start", of the     *)
(* white space and tilde between the groups, and of the group "end"; all   *)
(* three are 0 when there is no match.  The steps follow the pattern: the  *)
(* end time at offset b, the tilde at offset p, the start time of length   *)
(* first_len.                                                              *)
(***************************************************************************)
NoTimeRange == [start |-> 0, mid |-> 0, end |-> 0]

TimeReEnd(t, first_len, b) ==
    IF TimeLen(Drop(t, b)) > 0
        THEN [start |-> first_len, mid |-> b - first_len,
              end |-> TimeLen(Drop(t, b))]
    ELSE NoTimeRange

TimeReTilde(t, first_len, p) ==
    IF p < Len(t) /\ t[p + 1] = "~"
        THEN TimeReEnd(t, first_len, p + 1 + WsRun(Drop(t, p + 1)))
    ELSE NoTimeRange

TimeReStart(t, first_len) ==
    IF first_len > 0
        THEN TimeReTilde(t, first_len, first_len + WsRun(Drop(t, first_len)))
    ELSE NoTimeRange

TimeReParts(t) == TimeReStart(t, TimeLen(t))

PartsLen(parts) == parts.start + parts.mid + parts.end

TimeReLen(t) == PartsLen(TimeReParts(t))

(* list(TIME_RE.finditer(text)): the spans of the matches, scanning from   *)
(* offset pos and resuming at the end of each match; n is the length of    *)
(* the match at pos.                                                       *)
RECURSIVE FindIter(_, _, _)
FindIterAt(t, pos, matches, n) ==
    IF n > 0 THEN FindIter(t, pos + n, Append(matches, <<pos, pos + n>>))
    ELSE FindIter(t, pos + 1, matches)

FindIter(t, pos, matches) ==
    IF pos >= Len(t) THEN matches
    ELSE FindIterAt(t, pos, matches, TimeReLen(Drop(t, pos)))

(* does the run of white space at the start of t hold a line break? *)
HasLineBreak(t) == \E i \in 1..WsRun(t) : t[i] = "\n"

(* Length of the match of (\d{1,2})\s*\n\s*:\s*(\d{2}) at the start of t,  *)
(* 0 for none: a time whose hour and colon are parted by a line break.     *)
BrokenColonLen(t) ==
    IF TimeLen(t) > 0 /\ HasLineBreak(Drop(t, DigitRun(t))) THEN TimeLen(t)
    ELSE 0

(* re.sub(r'(\d{1,2})\s*\n\s*:\s*(\d{2})', r'\1:\2', t); n is the length   *)
(* of the match at the start of t.                                         *)
RECURSIVE JoinBrokenColon(_)
JoinBrokenColonAt(t, n) ==
    IF n > 0
        THEN SubSeq(t, 1, DigitRun(t)) \o <<":">> \o SubSeq(t, n - 1, n)
             \o JoinBrokenColon(Drop(t, n))
    ELSE <<Head(t)>> \o JoinBrokenColon(Tail(t))

JoinBrokenColon(t) ==
    IF t = <<>> THEN <<>> ELSE JoinBrokenColonAt(t, BrokenColonLen(t))

(* Is the range at the start of t, of the given parts, a match of the      *)
(* second pattern of _normalize_time_breaks: a range whose tilde stands    *)
(* between two line breaks?                                                *)
BrokenTilde(t, parts) ==
    /\ parts.start > 0
    /\ HasLineBreak(Drop(t, parts.start))
    /\ HasLineBreak(Drop(t, parts.start + WsRun(Drop(t, parts.start)) + 1))

(* re.sub(<second pattern>, r'\1~\2', t) *)
RECURSIVE JoinBrokenTilde(_)
JoinBrokenTildeAt(t, parts) ==
    IF BrokenTilde(t, parts)
        THEN SubSeq(t, 1, parts.start) \o <<"~">>
             \o SubSeq(t, PartsLen(parts) - parts.end + 1, PartsLen(parts))
             \o JoinBrokenTilde(Drop(t, PartsLen(parts)))
    ELSE <<Head(t)>> \o JoinBrokenTilde(Tail(t))

JoinBrokenTilde(t) ==
    IF t = <<>> THEN <<>> ELSE JoinBrokenTildeAt(t, TimeReParts(t))

(* _normalize_time_breaks *)
NormalizeTimeBreaks(t) == JoinBrokenTilde(JoinBrokenColon(t))

(* every chunk running to the end of the text *)
EndIdxEndOfText(t, matches, i) == Len(t)

(* end_idx of the loop of _parse_pdf for the match number i (from 1) *)
EndIdx(t, matches, i) ==
    IF i + 1 <= Len(matches) THEN matches[i + 1][1] ELSE Len(t)

(***************************************************************************)
(* _parse_pdf on the extracted text.  A row keeps its two times, the chunk *)
(* from which the function goes on to cut its place, head count and remark *)
(* columns, and the span of its match.                                     *)
(***************************************************************************)
ParsedRow(t, matches, i, parts) ==
    [start_time |-> RemoveWs(Slice(t, matches[i][1],
                                   matches[i][1] + parts.start)),
     end_time |-> RemoveWs(Slice(t, matches[i][2] - parts.end, matches[i][2])),
     chunk |-> StripWs(Slice(t, matches[i][2], EndIdx(t, matches, i))),
     span |-> matches[i]]

ParsedRows(t, matches) ==
    [i \in 1..Len(matches) |->
        ParsedRow(t, matches, i, TimeReParts(Drop(t, matches[i][1])))]

ParseText(t) == ParsedRows(t, FindIter(t, 0, <<>>))

ParsePdf(raw) == ParseText(NormalizeTimeBreaks(raw))

(* The candidate queries, in rank order. *)
BuildCandidates(clean_name) ==
    LET tokens == Split(clean_name)
        base == <<HomeCity \o <<" ">> \o clean_name, clean_name>>
        byToken == IF Len(tokens) > 1
                       THEN <<HomeCity \o <<" ">> \o tokens[Len(tokens)],
                              HomeCity \o <<" ">> \o tokens[1]>>
                   ELSE <<>>
        asStation == IF ~ EndsWith(clean_name, Station) /\ Len(clean_name) <= 5
                         THEN <<HomeCity \o <<" ">> \o clean_name \o Station>>
                     ELSE <<>>
    IN  base \o byToken \o asStation

(* if len(query.replace("서울", "").strip()) < 2: continue *)
TooShort(query) == Len(Strip(Remove(query, HomeCity))) < 2

(***************************************************************************)
(* How the request of get_location_info(query) may end: "none", no         *)
(* document or a status other than 200 (the function returns None);        *)
(* "raise", the HTTP request raised, which the function logs before        *)
(* returning None (an exception reaching the candidate loop is skipped the *)
(* same way); "result", the first document with its address and            *)
(* coordinates.                                                            *)
(***************************************************************************)
Responses ==
    {[kind |-> "none", address |-> <<>>, y |-> 0, x |-> 0],
     [kind |-> "raise", address |-> <<>>, y |-> 0, x |-> 0]}
    \cup {[kind |-> "result", address |-> a,
           y |-> Elsewhere[1], x |-> Elsewhere[2]] : a \in Addresses}
    \cup {[kind |-> "result", address |-> <<"seo", "ul", " ", "jong", "no", "gu">>,
           y |-> CityHall[1], x |-> CityHall[2]]}

(* "서울" in addr[:5] *)
NamesHomeCity(address) == Contains(Prefix(address, 5), HomeCity)

(* A result is turned down: if addr and "서울" not in addr[:5]: continue *)
OutOfRegion(response) ==
    response.address # <<>> /\ ~ NamesHomeCity(response.address)

Accepted(response) == response.kind = "result" /\ ~ OutOfRegion(response)

(* The first non-blank place of 장소_원본, stripped. *)
RECURSIVE FirstPlace(_)
FirstPlace(places) ==
    IF places = <<>> THEN UNKNOWN_PLACE
    ELSE IF Strip(Head(places)) # <<>> THEN Strip(Head(places))
    ELSE FirstPlace(Tail(places))

(***************************************************************************)
(* _parse_coordinate_value.  A raw "위도"/"경도" value is a record: form    *)
(* "none" (the key is missing), "text" (not a number, e.g. "nan"), "number" *)
(* (one value) or "list" (a JSON array, "[]" in the rows of _parse_pdf);    *)
(* vals holds its numbers in 1e-4 degrees.  The result is 0 for None.       *)
(***************************************************************************)
InCoordinateRange(val) ==
    \/ 330000 <= val /\ val <= 390000
    \/ 1240000 <= val /\ val <= 1320000

RECURSIVE FirstInRange(_)
FirstInRange(vals) ==
    IF vals = <<>> THEN 0
    ELSE IF InCoordinateRange(Head(vals)) THEN Head(vals)
    ELSE FirstInRange(Tail(vals))

ParseCoordinateValue(raw_val) ==
    IF raw_val.form \in {"none", "text"} THEN 0
    ELSE FirstInRange(raw_val.vals)

NoValue == [form |-> "none", vals |-> <<>>]
EmptyList == [form |-> "list", vals |-> <<>>]
NotANumber == [form |-> "text", vals |-> <<>>]
Number(v) == [form |-> "number", vals |-> <<v>>]

(* if lat_val and lon_val: coords_found = True *)
CoordsFound(r) ==
    ParseCoordinateValue(r.wido) # 0 /\ ParseCoordinateValue(r.gyeongdo) # 0

(***************************************************************************)
(* The coordinates chosen by _resolve_location_info: those of the row when *)
(* both parse; else those the geocoder returned when both are truthy; else *)
(* the defaults.  ResolveCoordinatesUnchecked is the variant without the   *)
(* "if lat and lon" test.                                                  *)
(***************************************************************************)
ResolveCoordinatesUnchecked(r, ret) ==
    IF CoordsFound(r)
        THEN <<ParseCoordinateValue(r.wido), ParseCoordinateValue(r.gyeongdo)>>
    ELSE <<ret.y, ret.x>>

ResolveCoordinates(r, ret) ==
    IF CoordsFound(r)
        THEN <<ParseCoordinateValue(r.wido), ParseCoordinateValue(r.gyeongdo)>>
    ELSE IF ret.found /\ ret.y # 0 /\ ret.x # 0
        THEN <<ret.y, ret.x>>
    ELSE <<DEFAULT_LATITUDE, DEFAULT_LONGITUDE>>

(* title = f"{location_name} 집회" + f" (참가자 {participants}명)" *)
BuildTitle(location_name, headcount) == <<location_name, "rally", headcount>>

(* The event dict of _convert_raw_events_to_db_format for one row. *)
ConvertRow(r, ret) ==
    LET location_name == FirstPlace(r.places)
        coords == ResolveCoordinates(r, ret)
    IN  MakeEvent(BuildTitle(location_name, r.headcount), location_name,
                  coords[1], coords[2], <<r.ymd, r.start_time>>)

(***************************************************************************)
(* Spec: synchronization runs on arbitrary event lists, starting from a    *)
(* table (empty after init_db, or already holding rows) whose keys are     *)
(* unique.  A run is the sequence of its loop iterations; the event of     *)
(* each iteration is arbitrary, so every event list up to MaxBatch rows is *)
(* covered.  Only one run is in progress at a time.                        *)
(***************************************************************************)
Init ==
    /\ MoreIdle
    /\ store \in InitialStores
    /\ pc = "idle"
    /\ work = NoWork
    /\ result = NoResult
    /\ batch = <<>>
    /\ nrun = 0
    /\ first = NoWork
    /\ MergeIdle
    /\ RouteIdle
    /\ GeocodeIdle
    /\ CrawlIdle
    /\ BatchIdle
    /\ NetIdle
    /\ TextIdle

Processed == work.inserted + work.duplicate + work.error

(* if not events: return 0 *)
EmptyRun ==
    /\ pc = "idle"
    /\ result' = NoResult
    /\ UNCHANGED <<store, pc, work, batch, nrun, first>>
    /\ UNCHANGED <<mergeVars, routeVars, geocodeVars>>
    /\ UNCHANGED <<crawlVars, batchVars>>
    /\ UNCHANGED textVars
    /\ UNCHANGED netVars
    /\ UNCHANGED moreVars

(* db.execute("BEGIN TRANSACTION") with the counters at 0 *)
BeginRun ==
    /\ pc = "idle"
    /\ pc' = "loop"
    /\ work' = Counters(store)
    /\ result' = NoResult
    /\ UNCHANGED <<store, batch, nrun, first>>
    /\ UNCHANGED <<mergeVars, routeVars, geocodeVars>>
    /\ UNCHANGED <<crawlVars, batchVars>>
    /\ UNCHANGED textVars
    /\ UNCHANGED netVars
    /\ UNCHANGED moreVars

(* BEGIN raises: rollback, raise *)
BeginFails ==
    /\ pc = "idle"
    /\ result' = Raised
    /\ UNCHANGED <<store, pc, work, batch, nrun, first>>
    /\ UNCHANGED <<mergeVars, routeVars, geocodeVars>>
    /\ UNCHANGED <<crawlVars, batchVars>>
    /\ UNCHANGED textVars
    /\ UNCHANGED netVars
    /\ UNCHANGED moreVars

(* one iteration of "for i, event in enumerate(events)" *)
ProcessRow ==
    /\ pc = "loop"
    /\ Processed < MaxBatch
    /\ \E event \in Events, fails \in BOOLEAN :
        work' = SyncRow(work, event, fails)
    /\ Len(work'.rows) <= MaxRows
    /\ UNCHANGED <<store, pc, result, batch, nrun, first>>
    /\ UNCHANGED <<mergeVars, routeVars, geocodeVars>>
    /\ UNCHANGED <<crawlVars, batchVars>>
    /\ UNCHANGED textVars
    /\ UNCHANGED netVars
    /\ UNCHANGED moreVars

(* db.commit(); return inserted_count *)
Commit ==
    /\ pc = "loop"
    /\ Processed >= 1
    /\ store' = work.rows
    /\ result' = ResultOf(work)
    /\ pc' = "idle"
    /\ work' = NoWork
    /\ UNCHANGED <<batch, nrun, first>>
    /\ UNCHANGED <<mergeVars, routeVars, geocodeVars>>
    /\ UNCHANGED <<crawlVars, batchVars>>
    /\ UNCHANGED textVars
    /\ UNCHANGED netVars
    /\ UNCHANGED moreVars

(* db.commit() raises: db.rollback(); raise *)
CommitFails ==
    /\ pc = "loop"
    /\ Processed >= 1
    /\ result' = Raised
    /\ pc' = "idle"
    /\ work' = NoWork
    /\ UNCHANGED <<store, batch, nrun, first>>
    /\ UNCHANGED <<mergeVars, routeVars, geocodeVars>>
    /\ UNCHANGED <<crawlVars, batchVars>>
    /\ UNCHANGED textVars
    /\ UNCHANGED netVars
    /\ UNCHANGED moreVars

Next ==
    \/ EmptyRun
    \/ BeginRun
    \/ BeginFails
    \/ ProcessRow
    \/ Commit
    \/ CommitFails

Spec == Init /\ [][Next]_vars

(***************************************************************************)
(* SpecIdem: one event list synchronized twice in a row against the same   *)
(* store, the database raising no error.                                   *)
(***************************************************************************)
InitIdem ==
    /\ MoreIdle
    /\ store \in InitialStores
    /\ pc = "idle"
    /\ work = NoWork
    /\ result = NoResult
    /\ batch \in EventLists \ {<<>>}
    /\ nrun = 0
    /\ first = NoWork
    /\ MergeIdle
    /\ RouteIdle
    /\ GeocodeIdle
    /\ CrawlIdle
    /\ BatchIdle
    /\ NetIdle
    /\ TextIdle

Resync ==
    /\ nrun < 2
    /\ LET out == SyncEventsToDb(store, batch, {}, FALSE)
       IN  /\ store' = out.rows
           /\ result' = out.result
           /\ first' = IF nrun = 0
                           THEN [rows |-> out.rows,
                                 inserted |-> out.result.inserted,
                                 duplicate |-> out.result.duplicate,
                                 error |-> out.result.error]
                       ELSE first
    /\ nrun' = nrun + 1
    /\ UNCHANGED <<pc, work, batch>>
    /\ UNCHANGED <<mergeVars, routeVars, geocodeVars>>
    /\ UNCHANGED <<crawlVars, batchVars>>
    /\ UNCHANGED textVars
    /\ UNCHANGED netVars
    /\ UNCHANGED moreVars

NextIdem == Resync

SpecIdem == InitIdem /\ [][NextIdem]_vars

(***************************************************************************)
(* C1.  Re-running the synchronizer on the same event list against the     *)
(* store left by the first run inserts nothing: the second run returns 0   *)
(* inserted rows, counts every row as a duplicate and none as an error,    *)
(* and leaves the store exactly as the first run left it; over both runs   *)
(* no (location_name, date) of the list is inserted twice.                 *)
(***************************************************************************)
ResyncInsertsNothing ==
    /\ nrun = 2 =>
            /\ result.inserted = 0
            /\ result.duplicate = Len(batch)
            /\ result.error = 0
            /\ ~ result.raised
            /\ store = first.rows
    /\ \A i, j \in 1..Len(store) :
            (i # j /\ store[i].location_name = store[j].location_name) =>
                DATE(store[i].start_date) # DATE(store[j].start_date)

ResyncAfterInsertWitness ==
    /\ nrun = 2
    /\ first.inserted > 0
    /\ first.duplicate > 0
    /\ result.duplicate = Len(batch)

(***************************************************************************)
(* C2.  After any sequence of synchronization runs on arbitrary event      *)
(* lists, lists that repeat a key inside one run included, no two stored   *)
(* events agree on (location_name, date(start_date)) or on                 *)
(* (title, date(start_date)).                                              *)
(***************************************************************************)
StoreKeysUnique == KeysUnique(store)

RepeatedKeySkippedWitness ==
    /\ Len(store) >= 2
    /\ pc = "idle"
    /\ result.duplicate > 0
    /\ result.inserted > 0

(***************************************************************************)
(* SpecMerge: the Merger applied to two arbitrary row lists.               *)
(***************************************************************************)
InitMerge ==
    /\ MoreIdle
    /\ SyncIdle
    /\ RouteIdle
    /\ GeocodeIdle
    /\ CrawlIdle
    /\ BatchIdle
    /\ NetIdle
    /\ TextIdle
    /\ smpa_list \in SeqsUpTo(SmpaRows, MaxSmpa)
    /\ spatic_list \in SeqsUpTo(SpaticRows, MaxSpatic)
    /\ merged = <<>>
    /\ mpc = "input"

Merge ==
    /\ mpc = "input"
    /\ merged' = MergeAndDeduplicate(smpa_list, spatic_list)
    /\ mpc' = "done"
    /\ UNCHANGED <<smpa_list, spatic_list>>
    /\ UNCHANGED <<syncVars, routeVars, geocodeVars>>
    /\ UNCHANGED <<crawlVars, batchVars>>
    /\ UNCHANGED textVars
    /\ UNCHANGED netVars
    /\ UNCHANGED moreVars

NextMerge == Merge

SpecMerge == InitMerge /\ [][NextMerge]_vars

(* The place tokens of a row list, as <<row index, token index>> pairs. *)
TokenPositions(rows) ==
    UNION {{<<i, k>> : k \in 1..Len(rows[i].places)} : i \in 1..Len(rows)}

(* The dedup key of the design: date, start time, white-space-free place. *)
DedupKey(rows, pos) ==
    <<rows[pos[1]].ymd, rows[pos[1]].start_time,
      StripWhitespace(rows[pos[1]].places[pos[2]])>>

(***************************************************************************)
(* C3.  The output of the Merger never contains two place tokens, in the   *)
(* same row or in different rows, with equal (date, start_time,            *)
(* normalized(place)), the normalization being the removal of white space. *)
(***************************************************************************)
MergedKeysDistinct ==
    mpc = "done" =>
        \A a, b \in TokenPositions(merged) :
            a # b => DedupKey(merged, a) # DedupKey(merged, b)

(***************************************************************************)
(* C4.  When rows collide on the dedup key the Merger keeps the occurrence *)
(* that comes first in input order, first-source rows before second-source *)
(* rows: a token survives exactly when no earlier token has its key, a row *)
(* keeps only its surviving tokens, with its own other fields, and is      *)
(* dropped entirely when none survive.                                     *)
(***************************************************************************)
Earlier(a, b) == a[1] < b[1] \/ (a[1] = b[1] /\ a[2] < b[2])

FirstOccurrence(rows, pos) ==
    \A q \in TokenPositions(rows) :
        Earlier(q, pos) => DedupKey(rows, q) # DedupKey(rows, pos)

RECURSIVE SurvivingPlaces(_, _, _)
SurvivingPlaces(rows, i, k) ==
    IF k > Len(rows[i].places) THEN <<>>
    ELSE IF FirstOccurrence(rows, <<i, k>>)
        THEN <<rows[i].places[k]>> \o SurvivingPlaces(rows, i, k + 1)
    ELSE SurvivingPlaces(rows, i, k + 1)

RECURSIVE FirstOccurrencesFrom(_, _)
FirstOccurrencesFrom(rows, i) ==
    IF i > Len(rows) THEN <<>>
    ELSE IF SurvivingPlaces(rows, i, 1) # <<>>
        THEN <<[rows[i] EXCEPT !.places = SurvivingPlaces(rows, i, 1)]>>
                \o FirstOccurrencesFrom(rows, i + 1)
    ELSE FirstOccurrencesFrom(rows, i + 1)

MergerKeepsFirstOccurrence ==
    mpc = "done" =>
        merged = FirstOccurrencesFrom(smpa_list \o spatic_list, 1)

(***************************************************************************)
(* SpecRoute: one call of the polyline test or of the straight-line test   *)
(* on arbitrary arguments.                                                 *)
(***************************************************************************)
InitRoute ==
    /\ MoreIdle
    /\ SyncIdle
    /\ MergeIdle
    /\ GeocodeIdle
    /\ CrawlIdle
    /\ BatchIdle
    /\ NetIdle
    /\ TextIdle
    /\ event_pt \in Points
    /\ threshold_meters \in Thresholds
    /\ is_near = NotCalled
    /\ \/ /\ gpc = "polyline"
          /\ route_coordinates \in SeqsUpTo(Points, MaxRoute)
          /\ start_pt = 0
          /\ end_pt = 0
       \/ /\ gpc = "straight"
          /\ route_coordinates = <<>>
          /\ start_pt \in Points
          /\ end_pt \in Points

CheckPolyline ==
    /\ gpc = "polyline"
    /\ is_near' = [fn |-> "polyline",
                   value |-> is_event_near_route_accurate(
                                 route_coordinates, event_pt, threshold_meters)]
    /\ gpc' = "done"
    /\ UNCHANGED <<route_coordinates, start_pt, end_pt, event_pt,
                   threshold_meters>>
    /\ UNCHANGED <<syncVars, mergeVars, geocodeVars>>
    /\ UNCHANGED <<crawlVars, batchVars>>
    /\ UNCHANGED textVars
    /\ UNCHANGED netVars
    /\ UNCHANGED moreVars

CheckStraightLine ==
    /\ gpc = "straight"
    /\ is_near' = [fn |-> "straight",
                   value |-> is_point_near_route(
                                 start_pt, end_pt, event_pt, threshold_meters)]
    /\ gpc' = "done"
    /\ UNCHANGED <<route_coordinates, start_pt, end_pt, event_pt,
                   threshold_meters>>
    /\ UNCHANGED <<syncVars, mergeVars, geocodeVars>>
    /\ UNCHANGED <<crawlVars, batchVars>>
    /\ UNCHANGED textVars
    /\ UNCHANGED netVars
    /\ UNCHANGED moreVars

NextRoute == CheckPolyline \/ CheckStraightLine

SpecRoute == InitRoute /\ [][NextRoute]_vars

(* Great-circle distance, in millimetres, from the event to the nearest vertex. *)
VertexWithin(mm) ==
    \E k \in 1..Len(route_coordinates) :
        haversine_distance(route_coordinates[k], event_pt) <= mm

(***************************************************************************)
(* C5.  The polyline test returns true exactly when at least one route     *)
(* vertex lies at great-circle distance <= threshold from the event point: *)
(* with the nearest vertex at 600 m it is false for threshold 500 and true *)
(* for threshold 700, and it is false for an empty polyline.               *)
(***************************************************************************)
PolylineNearIffSomeVertexWithin ==
    is_near.fn = "polyline" =>
        /\ is_near.value = VertexWithin(Millimetres(threshold_meters))
        /\ route_coordinates = <<>> => ~ is_near.value
        /\ (VertexWithin(600000) /\ ~ VertexWithin(599000)) =>
                /\ threshold_meters = 500 => ~ is_near.value
                /\ threshold_meters = 700 => is_near.value

SecondVertexAt600Witness ==
    /\ is_near.fn = "polyline"
    /\ Len(route_coordinates) = 2
    /\ haversine_distance(route_coordinates[1], event_pt) > 700000
    /\ VertexWithin(600000) /\ ~ VertexWithin(599000)
    /\ threshold_meters = 700
    /\ is_near.value

(***************************************************************************)
(* C6.  For a polyline that contains the exact event coordinate as one of  *)
(* its vertices the polyline test returns true for every threshold >= 0.   *)
(***************************************************************************)
PolylineThroughEventIsNear ==
    (/\ is_near.fn = "polyline"
     /\ \E k \in 1..Len(route_coordinates) :
            Coordinates[route_coordinates[k]] = Coordinates[event_pt]
     /\ threshold_meters >= 0)
        => is_near.value

EventOnPolylineThresholdZeroWitness ==
    /\ is_near.fn = "polyline"
    /\ Len(route_coordinates) = 2
    /\ route_coordinates[1] # event_pt
    /\ route_coordinates[2] = event_pt
    /\ threshold_meters = 0
    /\ is_near.value

(***************************************************************************)
(* C7.  On the straight-line test, if the event point equals the route     *)
(* origin or the route destination the result is true for every            *)
(* non-negative threshold.                                                 *)
(***************************************************************************)
EndpointIsNear ==
    (/\ is_near.fn = "straight"
     /\ \/ Coordinates[event_pt] = Coordinates[start_pt]
        \/ Coordinates[event_pt] = Coordinates[end_pt]
     /\ threshold_meters >= 0)
        => is_near.value

EventAtDestinationThresholdZeroWitness ==
    /\ is_near.fn = "straight"
    /\ event_pt = end_pt
    /\ event_pt # start_pt
    /\ threshold_meters = 0
    /\ is_near.value

(***************************************************************************)
(* C8.  The straight-line test returns true exactly when the origin-to-    *)
(* event distance is <= threshold, or the event-to-destination distance is *)
(* <= threshold, or the sum of those two legs exceeds the direct           *)
(* origin-to-destination distance by no more than the threshold.           *)
(***************************************************************************)
StraightLineNearIffEndpointOrDetour ==
    is_near.fn = "straight" =>
        (is_near.value <=>
            \/ haversine_distance(start_pt, event_pt)
                    <= Millimetres(threshold_meters)
            \/ haversine_distance(event_pt, end_pt)
                    <= Millimetres(threshold_meters)
            \/ haversine_distance(start_pt, event_pt)
                    + haversine_distance(event_pt, end_pt)
                    - haversine_distance(start_pt, end_pt)
                    <= Millimetres(threshold_meters))

NearByDetourOnlyWitness ==
    /\ is_near.fn = "straight"
    /\ is_near.value
    /\ haversine_distance(start_pt, event_pt) > Millimetres(threshold_meters)
    /\ haversine_distance(event_pt, end_pt) > Millimetres(threshold_meters)
    /\ threshold_meters = DEFAULT_THRESHOLD

(***************************************************************************)
(* SpecGeocode: one merged row goes through _resolve_location_info and     *)
(* _kakao_geocode_multi, is converted, and the resulting event list is     *)
(* synchronized into an empty events table.  The geocoding service and the *)
(* database answer as they please.                                         *)
(***************************************************************************)
(* "위도" and "경도" of a row that ships coordinates. *)
EmbeddedPairs ==
    {<<Number(375000), Number(1270000)>>,
     <<Number(1270000), Number(375000)>>,
     <<Number(400000), Number(1270000)>>,
     <<[form |-> "list", vals |-> <<400000, 375000>>], Number(1270000)>>,
     <<Number(375000), NoValue>>,
     <<NotANumber, Number(1270000)>>}

GeocodeRows ==
    [ymd : Days,
     start_time : Clock,
     places : SeqsUpTo(LocationNames, MaxPlaces) \ {<<>>},
     headcount : {"500"},
     wido : {EmptyList},
     gyeongdo : {EmptyList},
     remark : {"SMPA"}]
    \cup
    {[ymd |-> 1, start_time |-> "09:00",
      places |-> << <<"gwang", "hwa", "mun">> >>, headcount |-> "500",
      wido |-> pair[1], gyeongdo |-> pair[2], remark |-> "SMPA"] :
        pair \in EmbeddedPairs}

InitGeocode ==
    /\ MoreIdle
    /\ SyncIdle
    /\ MergeIdle
    /\ RouteIdle
    /\ CrawlIdle
    /\ BatchIdle
    /\ NetIdle
    /\ TextIdle
    /\ raw_row \in GeocodeRows
    /\ gpos = "start"
    /\ candidates = <<>>
    /\ cnext = 0
    /\ issued = <<>>
    /\ geocoded = NoCoordinates
    /\ new_events = <<>>

(* _resolve_location_info up to the call, and _kakao_geocode_multi up to   *)
(* its loop.                                                               *)
GeocodeStart ==
    /\ gpos = "start"
    /\ LET location_name == FirstPlace(raw_row.places)
           clean_name == NormalizePlaceName(location_name)
       IN  IF \/ CoordsFound(raw_row)
              \/ location_name = UNKNOWN_PLACE
              \/ Len(clean_name) < 2
               THEN /\ gpos' = "resolved"
                    /\ UNCHANGED <<candidates, cnext>>
           ELSE /\ candidates' = BuildCandidates(clean_name)
                /\ cnext' = 1
                /\ gpos' = "loop"
    /\ UNCHANGED <<raw_row, issued, geocoded, new_events>>
    /\ UNCHANGED <<syncVars, mergeVars, routeVars>>
    /\ UNCHANGED <<crawlVars, batchVars>>
    /\ UNCHANGED textVars
    /\ UNCHANGED netVars
    /\ UNCHANGED moreVars

(* A candidate that is too short once the city name is taken out. *)
GeocodeSkip ==
    /\ gpos = "loop"
    /\ cnext <= Len(candidates)
    /\ TooShort(candidates[cnext])
    /\ cnext' = cnext + 1
    /\ UNCHANGED <<raw_row, gpos, candidates, issued, geocoded, new_events>>
    /\ UNCHANGED <<syncVars, mergeVars, routeVars>>
    /\ UNCHANGED <<crawlVars, batchVars>>
    /\ UNCHANGED textVars
    /\ UNCHANGED netVars
    /\ UNCHANGED moreVars

(* One iteration that sends its query. *)
GeocodeQuery ==
    /\ gpos = "loop"
    /\ cnext <= Len(candidates)
    /\ ~ TooShort(candidates[cnext])
    /\ \E response \in Responses :
        /\ issued' = Append(issued, [query |-> candidates[cnext],
                                     rank |-> cnext,
                                     response |-> response])
        /\ IF Accepted(response)
               THEN /\ geocoded' = [found |-> TRUE,
                                    y |-> response.y, x |-> response.x]
                    /\ gpos' = "resolved"
                    /\ UNCHANGED cnext
           ELSE /\ cnext' = cnext + 1
                /\ UNCHANGED <<geocoded, gpos>>
    /\ UNCHANGED <<raw_row, candidates, new_events>>
    /\ UNCHANGED <<syncVars, mergeVars, routeVars>>
    /\ UNCHANGED <<crawlVars, batchVars>>
    /\ UNCHANGED textVars
    /\ UNCHANGED netVars
    /\ UNCHANGED moreVars

(* The loop ran out of candidates: return None, None. *)
GeocodeExhausted ==
    /\ gpos = "loop"
    /\ cnext > Len(candidates)
    /\ geocoded' = NoCoordinates
    /\ gpos' = "resolved"
    /\ UNCHANGED <<raw_row, candidates, cnext, issued, new_events>>
    /\ UNCHANGED <<syncVars, mergeVars, routeVars>>
    /\ UNCHANGED <<crawlVars, batchVars>>
    /\ UNCHANGED textVars
    /\ UNCHANGED netVars
    /\ UNCHANGED moreVars

(* The rest of _convert_raw_events_to_db_format for the row. *)
Convert ==
    /\ gpos = "resolved"
    /\ new_events' = <<ConvertRow(raw_row, geocoded)>>
    /\ gpos' = "converted"
    /\ UNCHANGED <<raw_row, candidates, cnext, issued, geocoded>>
    /\ UNCHANGED <<syncVars, mergeVars, routeVars>>
    /\ UNCHANGED <<crawlVars, batchVars>>
    /\ UNCHANGED textVars
    /\ UNCHANGED netVars
    /\ UNCHANGED moreVars

(* crawl_and_sync_events hands the events to _sync_events_to_db. *)
Persist ==
    /\ gpos = "converted"
    /\ \E failAt \in SUBSET (1..Len(new_events)), txFail \in BOOLEAN :
        LET sync == SyncEventsToDb(store, new_events, failAt, txFail)
        IN  /\ store' = sync.rows
            /\ result' = sync.result
    /\ gpos' = "done"
    /\ UNCHANGED <<pc, work, batch, nrun, first>>
    /\ UNCHANGED <<raw_row, candidates, cnext, issued, geocoded, new_events>>
    /\ UNCHANGED <<mergeVars, routeVars>>
    /\ UNCHANGED <<crawlVars, batchVars>>
    /\ UNCHANGED textVars
    /\ UNCHANGED netVars
    /\ UNCHANGED moreVars

NextGeocode ==
    \/ GeocodeStart
    \/ GeocodeSkip
    \/ GeocodeQuery
    \/ GeocodeExhausted
    \/ Convert
    \/ Persist

SpecGeocode == InitGeocode /\ [][NextGeocode]_vars

(***************************************************************************)
(* C9: the coordinates that _kakao_geocode_multi returns come from a       *)
(* result whose address names the home city within its first characters;   *)
(* a result whose address does not begin with the home city is never       *)
(* returned.                                                               *)
(***************************************************************************)
ReturnedResultNamesHomeCity ==
    geocoded.found =>
        NamesHomeCity(issued[Len(issued)].response.address)

(* No query sent by the row was answered with an accepted result. *)
NoCandidateAccepted ==
    \A k \in 1..Len(issued) : ~ Accepted(issued[k].response)

(* The event of the row, at the default coordinate. *)
DefaultEvent ==
    LET location_name == FirstPlace(raw_row.places)
    IN  MakeEvent(BuildTitle(location_name, raw_row.headcount), location_name,
                  DEFAULT_LATITUDE, DEFAULT_LONGITUDE,
                  <<raw_row.ymd, raw_row.start_time>>)

(***************************************************************************)
(* C10: when no candidate yields an accepted result, the geocoder returns  *)
(* (None, None), the row is still converted into one event at the default  *)
(* coordinate (37.5709, 126.9769), and the synchronization stores that     *)
(* event unless the database itself raises.                                *)
(***************************************************************************)
GeocodingFailureKeepsRow ==
    /\ gpos \in {"resolved", "converted", "done"} /\ NoCandidateAccepted
           => geocoded = NoCoordinates
    /\ gpos \in {"converted", "done"} /\ NoCandidateAccepted
         /\ ~ CoordsFound(raw_row)
           => new_events = <<DefaultEvent>>
    /\ gpos = "done" /\ NoCandidateAccepted /\ ~ CoordsFound(raw_row)
         /\ ~ result.raised /\ result.error = 0
           => /\ result.inserted = 1
              /\ store = <<[id |-> 1] @@ DefaultEvent>>

(* Every query of the row failed, one of them by raising, and the row is   *)
(* in the table at the default coordinate.                                 *)
AllQueriesFailedRowStoredWitness ==
    /\ gpos = "done"
    /\ Len(issued) >= 2
    /\ NoCandidateAccepted
    /\ \E k \in 1..Len(issued) : issued[k].response.kind = "raise"
    /\ \E k \in 1..Len(issued) : issued[k].response.kind = "result"
    /\ Len(store) = 1
    /\ store[1].latitude = DEFAULT_LATITUDE
    /\ store[1].longitude = DEFAULT_LONGITUDE

(* The national bounding box: latitude 33..39, longitude 124..132. *)
InsideBoundingBox(latitude, longitude) ==
    /\ 330000 <= latitude /\ latitude <= 390000
    /\ 1240000 <= longitude /\ longitude <= 1320000

(***************************************************************************)
(* C11: coordinates that the event takes from the row lie inside the       *)
(* national bounding box, and a row whose coordinates are taken causes no  *)
(* geocoding query; embedded values outside the box are not used.          *)
(***************************************************************************)
EmbeddedCoordinatesInsideBox ==
    gpos \in {"converted", "done"} /\ CoordsFound(raw_row)
        => /\ issued = <<>>
           /\ InsideBoundingBox(new_events[1].latitude,
                                new_events[1].longitude)

(***************************************************************************)
(* SpecCrawl: one run of crawl_and_sync_events.  Each source fetcher       *)
(* either fails (every exception is caught and the source returns []) or   *)
(* returns its rows; the rows are merged, converted and synchronized into  *)
(* an empty events table, and the run is reported.                         *)
(***************************************************************************)
BadDay == 0     \* a (년, 월, 일) that datetime(year, month, day) rejects

CrawlNames == {<<"gwang", "hwa", "mun">>, <<"mun">>}

(* Rows of _parse_pdf after _crawl_smpa_events added 장소_원본; a chunk     *)
(* without place nodes gives the empty list.                               *)
SmpaCrawlRows ==
    [ymd : Days \cup {BadDay},
     start_time : Clock,
     places : SeqsUpTo(CrawlNames, 1),
     headcount : {"500"},
     wido : {EmptyList},
     gyeongdo : {EmptyList},
     remark : {"SMPA"}]

(* Rows of scrape_spatic: a group without place tokens is not emitted. *)
SpaticCrawlRows ==
    [ymd : Days,
     start_time : Clock,
     places : SeqsUpTo(CrawlNames, 1) \ {<<>>},
     headcount : {""},
     wido : {NoValue},
     gyeongdo : {NoValue},
     remark : {"SPATIC"}]

(* _validate_row_data: some value of the row is not blank. *)
ValidateRowData(r) ==
    \/ r.start_time # ""
    \/ r.places # <<>>
    \/ r.headcount # ""
    \/ r.remark # ""

(* _parse_event_datetime raises ValueError on an impossible date. *)
DateParses(r) == r.ymd # BadDay

(***************************************************************************)
(* What _kakao_geocode_multi may return for a row: nothing when it is not  *)
(* called or sends no query, else nothing or the coordinates of a result.  *)
(***************************************************************************)
GeocodeReturns(r) ==
    LET location_name == FirstPlace(r.places)
        clean_name == NormalizePlaceName(location_name)
        queries == IF Len(clean_name) < 2 THEN <<>>
                   ELSE SelectSeq(BuildCandidates(clean_name),
                                  LAMBDA q : ~ TooShort(q))
    IN  IF CoordsFound(r) \/ location_name = UNKNOWN_PLACE \/ queries = <<>>
            THEN {NoCoordinates}
        ELSE {NoCoordinates,
              [found |-> TRUE, y |-> CityHall[1], x |-> CityHall[2]]}

(* _convert_raw_events_to_db_format: every event list the rows can give. *)
RECURSIVE ConvertRows(_)
ConvertRows(rows) ==
    IF rows = <<>> THEN {<<>>}
    ELSE LET r == Head(rows)
         IN  IF ~ ValidateRowData(r) \/ ~ DateParses(r)
                 THEN ConvertRows(Tail(rows))
             ELSE {<<ConvertRow(r, ret)>> \o rest :
                     ret \in GeocodeReturns(r), rest \in ConvertRows(Tail(rows))}

(* The dictionaries crawl_and_sync_events returns. *)
WarningReport ==
    [success |-> TRUE, status |-> "warning", total_crawled |-> 0,
     inserted_count |-> 0]

ErrorReport ==
    [success |-> FALSE, status |-> "error", total_crawled |-> 0,
     inserted_count |-> 0]

SuccessReport(total_crawled, inserted_count) ==
    [success |-> TRUE, status |-> "success", total_crawled |-> total_crawled,
     inserted_count |-> inserted_count]

ReportOfAlwaysSuccess(events, sync_result) ==
    SuccessReport(Len(events), sync_result.inserted)

(* try: ... return success; except Exception: return error *)
ReportOf(events, sync_result) ==
    IF sync_result.raised THEN ErrorReport
    ELSE SuccessReport(Len(events), sync_result.inserted)

(* The router: 200 "completed" on success, HTTP 500 otherwise. *)
RouterResponse(rep) ==
    IF rep.success
        THEN [code |-> 200, total_crawled |-> rep.total_crawled]
    ELSE [code |-> 500, total_crawled |-> 0]

InitCrawl ==
    /\ MoreIdle
    /\ SyncIdle
    /\ MergeIdle
    /\ RouteIdle
    /\ GeocodeIdle
    /\ fetched = NotFetched
    /\ cpc = "smpa"
    /\ report = NoReport
    /\ BatchIdle
    /\ NetIdle
    /\ TextIdle

(* _crawl_smpa_events: any exception of the download or the parse, the     *)
(* undefined name "session" of _get_today_post_info included, ends in [].  *)
CrawlSmpa ==
    /\ cpc = "smpa"
    /\ \/ /\ fetched' = [fetched EXCEPT !.smpa = "failed"]
          /\ smpa_list' = <<>>
       \/ /\ fetched' = [fetched EXCEPT !.smpa = "ok"]
          /\ smpa_list' \in SeqsUpTo(SmpaCrawlRows, MaxSmpa)
    /\ cpc' = "spatic"
    /\ UNCHANGED <<spatic_list, merged, mpc, report>>
    /\ UNCHANGED <<syncVars, routeVars, geocodeVars>>
    /\ UNCHANGED batchVars
    /\ UNCHANGED textVars
    /\ UNCHANGED netVars
    /\ UNCHANGED moreVars

(* _crawl_spatic_events *)
CrawlSpatic ==
    /\ cpc = "spatic"
    /\ \/ /\ fetched' = [fetched EXCEPT !.spatic = "failed"]
          /\ spatic_list' = <<>>
       \/ /\ fetched' = [fetched EXCEPT !.spatic = "ok"]
          /\ spatic_list' \in SeqsUpTo(SpaticCrawlRows, MaxSpatic)
    /\ cpc' = "merge"
    /\ UNCHANGED <<smpa_list, merged, mpc, report>>
    /\ UNCHANGED <<syncVars, routeVars, geocodeVars>>
    /\ UNCHANGED batchVars
    /\ UNCHANGED textVars
    /\ UNCHANGED netVars
    /\ UNCHANGED moreVars

(* raw_events = _merge_and_deduplicate(...); if not raw_events: return [] *)
MergeSources ==
    /\ cpc = "merge"
    /\ merged' = MergeAndDeduplicate(smpa_list, spatic_list)
    /\ cpc' = IF merged' = <<>> THEN "converted" ELSE "convert"
    /\ UNCHANGED <<smpa_list, spatic_list, mpc, fetched, report>>
    /\ UNCHANGED <<syncVars, routeVars, geocodeVars>>
    /\ UNCHANGED batchVars
    /\ UNCHANGED textVars
    /\ UNCHANGED netVars
    /\ UNCHANGED moreVars

(* db_events = await _convert_raw_events_to_db_format(raw_events) *)
ConvertEvents ==
    /\ cpc = "convert"
    /\ new_events' \in ConvertRows(merged)
    /\ cpc' = "converted"
    /\ UNCHANGED <<raw_row, gpos, candidates, cnext, issued, geocoded>>
    /\ UNCHANGED <<fetched, report>>
    /\ UNCHANGED <<syncVars, mergeVars, routeVars>>
    /\ UNCHANGED batchVars
    /\ UNCHANGED textVars
    /\ UNCHANGED netVars
    /\ UNCHANGED moreVars

(* if not new_events: return the warning *)
ReportNoEvents ==
    /\ cpc = "converted"
    /\ new_events = <<>>
    /\ report' = WarningReport
    /\ cpc' = "done"
    /\ UNCHANGED fetched
    /\ UNCHANGED <<syncVars, mergeVars, routeVars, geocodeVars>>
    /\ UNCHANGED batchVars
    /\ UNCHANGED textVars
    /\ UNCHANGED netVars
    /\ UNCHANGED moreVars

(* connect, _sync_events_to_db, and the report of the run *)
SyncAndReport ==
    /\ cpc = "converted"
    /\ new_events # <<>>
    /\ \E failAt \in SUBSET (1..Len(new_events)), txFail \in BOOLEAN :
        LET sync == SyncEventsToDb(store, new_events, failAt, txFail)
        IN  /\ store' = sync.rows
            /\ result' = sync.result
            /\ report' = ReportOf(new_events, sync.result)
    /\ cpc' = "done"
    /\ UNCHANGED fetched
    /\ UNCHANGED <<pc, work, batch, nrun, first>>
    /\ UNCHANGED <<mergeVars, routeVars, geocodeVars>>
    /\ UNCHANGED batchVars
    /\ UNCHANGED textVars
    /\ UNCHANGED netVars
    /\ UNCHANGED moreVars

NextCrawl ==
    \/ CrawlSmpa
    \/ CrawlSpatic
    \/ MergeSources
    \/ ConvertEvents
    \/ ReportNoEvents
    \/ SyncAndReport

SpecCrawl == InitCrawl /\ [][NextCrawl]_vars

(* Every (date, start time, place) of the rows is among the merged rows. *)
SourceKept(rows) ==
    \A i \in 1..Len(rows) : \A k \in 1..Len(rows[i].places) :
        \E j \in 1..Len(merged) : \E l \in 1..Len(merged[j].places) :
            MergeKey(merged[j], merged[j].places[l])
                = MergeKey(rows[i], rows[i].places[k])

(* Every merged row with a possible date has its event. *)
MergedRowsConverted ==
    \A j \in 1..Len(merged) :
        DateParses(merged[j]) =>
            \E e \in 1..Len(new_events) :
                /\ new_events[e].location_name = FirstPlace(merged[j].places)
                /\ DATE(new_events[e].start_date) = merged[j].ymd

(* Every event of the run is in the table under its (location, day). *)
EventsPersisted ==
    \A e \in 1..Len(new_events) :
        \E i \in 1..Len(store) :
            /\ store[i].location_name = new_events[e].location_name
            /\ DATE(store[i].start_date) = DATE(new_events[e].start_date)

DatabaseRaisedNothing == ~ result.raised /\ result.error = 0

(***************************************************************************)
(* C12: a source fetcher that fails contributes the empty list and no      *)
(* exception; the rows of the other source are still merged, converted     *)
(* and, the database raising nothing, persisted, and the run succeeds.     *)
(***************************************************************************)
FailedSourceDoesNotBlockOther ==
    cpc = "done" =>
        /\ fetched.smpa = "failed" =>
            /\ smpa_list = <<>>
            /\ SourceKept(spatic_list)
        /\ fetched.spatic = "failed" =>
            /\ spatic_list = <<>>
            /\ SourceKept(smpa_list)
        /\ "failed" \in {fetched.smpa, fetched.spatic} =>
            /\ MergedRowsConverted
            /\ DatabaseRaisedNothing => EventsPersisted /\ report.success
            /\ ~ report.success => result.raised

(* The bulletin source failed and the row of the table source is stored. *)
SmpaFailedSpaticStoredWitness ==
    /\ cpc = "done"
    /\ fetched.smpa = "failed"
    /\ fetched.spatic = "ok"
    /\ Len(spatic_list) = 1
    /\ Len(store) = 1
    /\ store[1].location_name = FirstPlace(spatic_list[1].places)
    /\ report.success
    /\ report.total_crawled = 1

(***************************************************************************)
(* C13 as stated: the run is reported as an error exactly when both        *)
(* sources yielded no events or the transaction failed, and as a success   *)
(* otherwise.                                                              *)
(***************************************************************************)
ErrorIffNoEventsOrTransactionFailed ==
    cpc = "done" =>
        (RouterResponse(report).code = 500
            <=> \/ smpa_list = <<>> /\ spatic_list = <<>>
                \/ result.raised)

(***************************************************************************)
(* C13 amended: the run is reported as an error exactly when the           *)
(* transaction failed; a committed run reports success with the number of  *)
(* converted events, and a run with no event to synchronize (both sources  *)
(* empty included) reports success with status "warning" and a count of 0. *)
(***************************************************************************)
ErrorIffTransactionFailed ==
    cpc = "done" =>
        /\ RouterResponse(report).code = 500 <=> result.raised
        /\ ~ report.success <=> result.raised
        /\ new_events # <<>> /\ ~ result.raised =>
            /\ report.status = "success"
            /\ report.total_crawled = Len(new_events)
            /\ report.inserted_count = Len(store)
        /\ new_events = <<>> => report = WarningReport
        /\ smpa_list = <<>> /\ spatic_list = <<>> => report = WarningReport

(* Both sources failed and the run is reported as a success with a warning. *)
BothSourcesFailedWarningWitness ==
    /\ cpc = "done"
    /\ fetched.smpa = "failed"
    /\ fetched.spatic = "failed"
    /\ report = WarningReport
    /\ RouterResponse(report).code = 200

BatchEvents ==
    {MakeEvent(p, p, DEFAULT_LATITUDE, DEFAULT_LONGITUDE, s) :
        p \in Places, s \in StartDates}

EarlierRows ==
    {[MakeEvent(p, p, CityHall[1], CityHall[2], s) EXCEPT !.status = "ended"] :
        p \in Places, s \in {1} \X Clock}

EarlierStores == {<<>>} \cup {AsRows(<<e>>, <<>>) : e \in EarlierRows}

InitBatch ==
    /\ MoreIdle
    /\ store \in EarlierStores
    /\ pc = "idle"
    /\ work = NoWork
    /\ result = NoResult
    /\ batch \in SeqsUpTo(BatchEvents, MaxBatchRows) \ {<<>>}
    /\ nrun = 0
    /\ first = NoWork
    /\ MergeIdle
    /\ RouteIdle
    /\ GeocodeIdle
    /\ CrawlIdle
    /\ BatchIdle
    /\ NetIdle
    /\ TextIdle

SyncBatch ==
    /\ nrun = 0
    /\ \E failAt \in SUBSET (1..Len(batch)), txFail \in BOOLEAN :
        LET sync == SyncEventsToDb(store, batch, failAt, txFail)
        IN  /\ store' = sync.rows
            /\ result' = sync.result
            /\ faults' = [failAt |-> failAt, txFail |-> txFail]
    /\ before' = store
    /\ nrun' = 1
    /\ UNCHANGED <<pc, work, batch, first>>
    /\ UNCHANGED <<mergeVars, routeVars, geocodeVars, crawlVars>>
    /\ UNCHANGED textVars
    /\ UNCHANGED netVars
    /\ UNCHANGED moreVars

NextBatch == SyncBatch

SpecBatch == InitBatch /\ [][NextBatch]_vars

(* The rows of the batch at the positions that did not fail, in order. *)
RECURSIVE WithoutFailing(_, _, _)
WithoutFailing(events, failAt, i) ==
    IF i > Len(events) THEN <<>>
    ELSE (IF i \in failAt THEN <<>> ELSE <<events[i]>>)
             \o WithoutFailing(events, failAt, i + 1)

(***************************************************************************)
(* C14: a row whose statement raises is counted as failed and nothing      *)
(* else: the run commits exactly what it would have committed for the      *)
(* batch without the failing rows, so every other non-duplicate row,       *)
(* before and after a failing one, is inserted.                            *)
(***************************************************************************)
RowErrorDoesNotAbortRun ==
    nrun = 1 /\ ~ faults.txFail =>
        LET others == WithoutFailing(batch, faults.failAt, 1)
            sync == SyncEventsToDb(before, others, {}, FALSE)
        IN  /\ ~ result.raised
            /\ result.error = Cardinality(faults.failAt)
            /\ store = sync.rows
            /\ result.inserted = sync.result.inserted
            /\ result.inserted = Len(store) - Len(before)
            /\ \A i \in 1..Len(others) :
                   \E k \in 1..Len(store) : Matches(store[k], others[i])

(* The second of three rows failed; the first and the third are stored. *)
MiddleRowFailedOthersStoredWitness ==
    /\ nrun = 1
    /\ Len(batch) = 3
    /\ faults = [failAt |-> {2}, txFail |-> FALSE]
    /\ result = [inserted |-> 2, duplicate |-> 0, error |-> 1,
                 raised |-> FALSE]
    /\ Len(store) = Len(before) + 2
    /\ \E k \in 1..Len(store) : Matches(store[k], batch[1])
    /\ \E k \in 1..Len(store) : Matches(store[k], batch[3])
    /\ ~ \E k \in 1..Len(store) : Matches(store[k], batch[2])

(***************************************************************************)
(* C15: when the transaction fails, nothing of the run remains: the store  *)
(* is what it was before the run, the exception is raised, and the run is  *)
(* reported as failed.                                                     *)
(***************************************************************************)
TransactionFailureRollsBack ==
    nrun = 1 /\ faults.txFail =>
        /\ store = before
        /\ result = Raised
        /\ ReportOf(batch, result) = ErrorReport
        /\ RouterResponse(ReportOf(batch, result)).code = 500

(* The transaction failed on a batch with a row the table did not hold. *)
FailedTransactionWithNewRowWitness ==
    /\ nrun = 1
    /\ faults.txFail
    /\ faults.failAt = {}
    /\ before # <<>>
    /\ \E i \in 1..Len(batch) : ~ Existing(before, batch[i])
    /\ store = before

(***************************************************************************)
(* C19: a synchronization run only inserts: every row that was in the      *)
(* table before the run is there afterwards with all its fields unchanged, *)
(* whether the run committed, skipped rows as duplicates or rolled back.   *)
(***************************************************************************)
EarlierRowsUnchanged ==
    nrun = 1 =>
        /\ Len(before) <= Len(store)
        /\ \A k \in 1..Len(before) : store[k] = before[k]

(* A committed run met a duplicate of the earlier row and inserted a row. *)
DuplicateOfEarlierRowWitness ==
    /\ nrun = 1
    /\ ~ result.raised
    /\ Len(before) = 1
    /\ result.duplicate >= 1
    /\ result.inserted >= 1
    /\ \E i \in 1..Len(batch) : Matches(before[1], batch[i])
    /\ store[1] = before[1]
    /\ store[1].status = "ended"

(***************************************************************************)
(* SpecNormalize: _normalize_place_name applied to a place name and then   *)
(* to its own result.  The names are built from the pieces the function    *)
(* rewrites: a distance, brackets, a separator, a filler word, the exit    *)
(* mark, an alias of PLACE_NAME_REPLACE_MAP and its replacement.           *)
(***************************************************************************)
NamePieces ==
    {<<"1">>, <<"k", "m">>, <<"(">>, <<")">>, <<" ">>, <<"->">>,
     <<"ap">>, <<"CHUL">>,
     <<"hyo", "ja", "pa", "chul", "so">>,
     <<"cheong", "un", "pa", "chul", "so">>,
     <<"gwang", "hwa", "mun">>}

RECURSIVE Join(_)
Join(pieces) == IF pieces = <<>> THEN <<>> ELSE Head(pieces) \o Join(Tail(pieces))

PlaceNames == {Join(pieces) : pieces \in SeqsUpTo(NamePieces, MaxPieces)}

InitNormalize ==
    /\ MoreIdle
    /\ nplace \in PlaceNames
    /\ nonce = <<>>
    /\ ntwice = <<>>
    /\ npc = 0
    /\ raw_text = <<>>
    /\ parsed = <<>>
    /\ ppc = "idle"
    /\ SyncIdle
    /\ MergeIdle
    /\ RouteIdle
    /\ GeocodeIdle
    /\ CrawlIdle
    /\ BatchIdle
    /\ NetIdle

(* clean_name = _normalize_place_name(location_name) *)
NormalizeName ==
    /\ npc = 0
    /\ nonce' = NormalizePlaceName(nplace)
    /\ npc' = 1
    /\ UNCHANGED <<nplace, ntwice, raw_text, parsed, ppc>>
    /\ UNCHANGED <<syncVars, mergeVars, routeVars, geocodeVars, crawlVars,
                   batchVars>>
    /\ UNCHANGED netVars
    /\ UNCHANGED moreVars

(* the function applied to its own result *)
NormalizeAgain ==
    /\ npc = 1
    /\ ntwice' = NormalizePlaceName(nonce)
    /\ npc' = 2
    /\ UNCHANGED <<nplace, nonce, raw_text, parsed, ppc>>
    /\ UNCHANGED <<syncVars, mergeVars, routeVars, geocodeVars, crawlVars,
                   batchVars>>
    /\ UNCHANGED netVars
    /\ UNCHANGED moreVars

NextNormalize == NormalizeName \/ NormalizeAgain

SpecNormalize == InitNormalize /\ [][NextNormalize]_vars

(***************************************************************************)
(* C16: applying the place-name normaliser to its own output returns that  *)
(* output unchanged.                                                       *)
(***************************************************************************)
NormalizerIsIdempotent == npc = 2 => ntwice = nonce


(***************************************************************************)
(* SpecParse: _parse_pdf on a bulletin text.  The texts are built from a   *)
(* whole time range, the parts of one (an hour, a colon with minutes, a    *)
(* tilde with an end time), a tilde between line breaks, white space and   *)
(* a character of detail text.                                             *)
(***************************************************************************)
TextPieces ==
    {<<"1", ":", "2", "2", "~", "2", ":", "1", "1">>,
     <<"1">>, <<":", "2", "2">>, <<"~", "2", ":", "1", "1">>,
     <<"\n", "~", "\n">>, <<"\n">>, <<" ">>, <<"~">>, <<"x">>}

BulletinTexts == {Join(pieces) : pieces \in SeqsUpTo(TextPieces, MaxTextPieces)}

InitParse ==
    /\ MoreIdle
    /\ raw_text \in BulletinTexts
    /\ parsed = <<>>
    /\ ppc = "input"
    /\ nplace = <<>>
    /\ nonce = <<>>
    /\ ntwice = <<>>
    /\ npc = 0
    /\ SyncIdle
    /\ MergeIdle
    /\ RouteIdle
    /\ GeocodeIdle
    /\ CrawlIdle
    /\ BatchIdle
    /\ NetIdle

(* rows = _parse_pdf(pdf_path, ymd) *)
ParseBulletin ==
    /\ ppc = "input"
    /\ parsed' = ParsePdf(raw_text)
    /\ ppc' = "done"
    /\ UNCHANGED <<nplace, nonce, ntwice, npc, raw_text>>
    /\ UNCHANGED <<syncVars, mergeVars, routeVars, geocodeVars, crawlVars,
                   batchVars>>
    /\ UNCHANGED netVars
    /\ UNCHANGED moreVars

NextParse == ParseBulletin

SpecParse == InitParse /\ [][NextParse]_vars


(* The text that TIME_RE is matched against. *)
ParsedText == NormalizeTimeBreaks(raw_text)

AllWhiteSpace(t, s, e) == \A k \in s..(e - 1) : t[k + 1] \in WhiteSpace

(* t[s:e] is an hour of one or two digits, a colon and two digits of       *)
(* minutes, with any white space around the colon.                         *)
IsTime(t, s, e) ==
    /\ 0 <= s /\ s + 4 <= e /\ e <= Len(t)
    /\ t[s + 1] \in Digits
    /\ t[e - 1] \in Digits /\ t[e] \in Digits
    /\ \E h \in {1, 2} : \E c \in (s + h)..(e - 3) :
            /\ t[c + 1] = ":"
            /\ \A k \in s..(s + h - 1) : t[k + 1] \in Digits
            /\ AllWhiteSpace(t, s + h, c)
            /\ AllWhiteSpace(t, c + 1, e - 2)

(* t[s:e] is H:MM~H:MM, with any white space around the tilde. *)
IsTimeRange(t, s, e) ==
    /\ 0 <= s /\ e <= Len(t)
    /\ s < Len(t) /\ t[s + 1] \in Digits
    /\ \E tilde \in (s + 4)..(e - 5) :
            /\ t[tilde + 1] = "~"
            /\ \E a \in (s + 4)..tilde : \E b \in (tilde + 1)..(e - 4) :
                    /\ AllWhiteSpace(t, a, tilde)
                    /\ AllWhiteSpace(t, tilde + 1, b)
                    /\ IsTime(t, s, a)
                    /\ IsTime(t, b, e)

(* the offsets of the text t that no row's match covers, up to the match   *)
(* of row i (the end of the text for i past the last row)                  *)
GapBefore(t, i) ==
    (IF i = 1 THEN 0 ELSE parsed[i - 1].span[2])
        .. ((IF i <= Len(parsed) THEN parsed[i].span[1] ELSE Len(t)) - 1)

(* The rows are those of the matches of H:MM~H:MM in the text t. *)
RowsFollowMatches(t, n) ==
    /\ \A i \in 1..n :
            /\ IsTimeRange(t, parsed[i].span[1], parsed[i].span[2])
            /\ i < n => parsed[i].span[2] <= parsed[i + 1].span[1]
            /\ parsed[i].chunk =
                   StripWs(Slice(t, parsed[i].span[2],
                                 IF i < n THEN parsed[i + 1].span[1]
                                 ELSE Len(t)))
    /\ \A i \in 1..(n + 1) : \A s \in GapBefore(t, i) :
            \/ t[s + 1] \notin Digits
            \/ \A e \in (s + 9)..Len(t) : ~ IsTimeRange(t, s, e)

(***************************************************************************)
(* C17: _parse_pdf emits one row per non-overlapping match of H:MM~H:MM,   *)
(* in text order: the span of every row is a match, the spans follow each  *)
(* other without overlap, no match starts in the text between them, and    *)
(* the detail text of a row is the text from the end of its match to the   *)
(* start of the next row's match (the end of the text for the last row).   *)
(***************************************************************************)
OneRowPerTimeRange ==
    ppc = "done" => RowsFollowMatches(ParsedText, Len(parsed))

(* Two ranges with detail text after each gave two rows, each with its own *)
(* detail text.                                                            *)
TwoRangesTwoRowsWitness ==
    /\ ppc = "done"
    /\ Len(parsed) = 2
    /\ parsed[1].chunk # <<>>
    /\ parsed[2].chunk # <<>>


(***************************************************************************)
(* SpecNet: one call of a function that talks to the network.  The plan of *)
(* the call is what the network answers to the first, second and third     *)
(* request: "ok", a usable answer; "empty", an answer without the thing    *)
(* asked for; "error", a transport error or an error status.               *)
(***************************************************************************)
max_retries == 3
BASE_DELAY == 2

NetAnswers == {"ok", "empty", "error"}

(* TOPISCrawler: a for loop over range(max_retries) around the request    *)

RetryingCalls == {"_get_bus_notices", "_get_notice_detail", "_download_attachment"}

(* a single request inside try/except, or no handler at all *)
SingleCalls == {"get_location_info", "get_route_coordinates", "_get_today_post_info"}

(* wait_time of every retry the same *)
WaitTimeFlat(attempt) == BASE_DELAY

(* wait_time = (attempt + 1) * 2, attempt counting from 0 *)
WaitTime(attempt) == (attempt + 1) * BASE_DELAY

(* What the function returns for an answer that is not an error. *)
ValueOf(fn, answer) ==
    CASE fn = "_get_bus_notices" -> "json"
      [] fn = "_get_notice_detail" -> IF answer = "ok" THEN "detail" ELSE "None"
      [] fn = "_download_attachment" -> "file_path"
      [] fn = "get_location_info" -> IF answer = "ok" THEN "place" ELSE "None"
      [] fn = "get_route_coordinates" ->
             IF answer = "ok" THEN "coordinates" ELSE "[]"

InitNet ==
    /\ MoreIdle
    /\ net_call \in [fn : RetryingCalls \cup SingleCalls,
                     plan : [1..max_retries -> NetAnswers]]
    /\ net_attempt = 0
    /\ net_waits = <<>>
    /\ net_ret = Pending
    /\ SyncIdle
    /\ MergeIdle
    /\ RouteIdle
    /\ GeocodeIdle
    /\ CrawlIdle
    /\ BatchIdle
    /\ TextIdle

(* One round of the loop of _get_bus_notices, _get_notice_detail or        *)
(* _download_attachment: the request, and on an exception the sleep before *)
(* the next round or, in the last round, the fall through to return None.  *)
BusRequest ==
    /\ net_call.fn \in RetryingCalls
    /\ net_ret = Pending
    /\ net_attempt < max_retries
    /\ LET attempt == net_attempt
           answer == net_call.plan[attempt + 1]
       IN  /\ net_attempt' = attempt + 1
           /\ IF answer # "error"
                  THEN /\ net_ret' = ValueOf(net_call.fn, answer)
                       /\ UNCHANGED net_waits
              ELSE IF attempt < max_retries - 1
                  THEN /\ net_waits' = Append(net_waits, WaitTime(attempt))
                       /\ UNCHANGED net_ret
              ELSE /\ net_ret' = "None"
                   /\ UNCHANGED net_waits
    /\ UNCHANGED net_call
    /\ UNCHANGED <<syncVars, mergeVars, routeVars, geocodeVars, crawlVars,
                   batchVars, textVars>>
    /\ UNCHANGED moreVars

(* get_location_info: one request; any exception is logged and None        *)
(* returned.                                                               *)
GetLocationInfo ==
    /\ net_call.fn = "get_location_info"
    /\ net_ret = Pending
    /\ net_attempt' = 1
    /\ net_ret' = IF net_call.plan[1] = "error" THEN "None"
                  ELSE ValueOf(net_call.fn, net_call.plan[1])
    /\ UNCHANGED <<net_call, net_waits>>
    /\ UNCHANGED <<syncVars, mergeVars, routeVars, geocodeVars, crawlVars,
                   batchVars, textVars>>
    /\ UNCHANGED moreVars

(* get_route_coordinates: one request; any exception is logged and []      *)
(* returned.                                                               *)
GetRouteCoordinates ==
    /\ net_call.fn = "get_route_coordinates"
    /\ net_ret = Pending
    /\ net_attempt' = 1
    /\ net_ret' = IF net_call.plan[1] = "error" THEN "[]"
                  ELSE ValueOf(net_call.fn, net_call.plan[1])
    /\ UNCHANGED <<net_call, net_waits>>
    /\ UNCHANGED <<syncVars, mergeVars, routeVars, geocodeVars, crawlVars,
                   batchVars, textVars>>
    /\ UNCHANGED moreVars

(* _get_today_post_info: one request for the list page.  An error raises   *)
(* from raise_for_status, a list without today's post raises RuntimeError, *)
(* and with the post found the view request names "session", which is not  *)
(* defined: the call raises in each case and _crawl_smpa_events turns the  *)
(* exception into an empty list of rows.                                   *)
GetTodayPostInfo ==
    /\ net_call.fn = "_get_today_post_info"
    /\ net_ret = Pending
    /\ net_attempt' = 1
    /\ net_ret' = "raise"
    /\ UNCHANGED <<net_call, net_waits>>
    /\ UNCHANGED <<syncVars, mergeVars, routeVars, geocodeVars, crawlVars,
                   batchVars, textVars>>
    /\ UNCHANGED moreVars

NextNet == BusRequest \/ GetLocationInfo \/ GetRouteCoordinates \/ GetTodayPostInfo

SpecNet == InitNet /\ [][NextNet]_vars

(***************************************************************************)
(* C18 as stated: every network call that fails transiently is retried: a  *)
(* call whose first request met an error has sent a second request by the  *)
(* time it returns.                                                        *)
(***************************************************************************)
TransientFailureIsRetried ==
    (net_ret # Pending /\ net_call.plan[1] = "error") => net_attempt > 1

(***************************************************************************)
(* C18, amended: the list, detail and attachment fetches of the bus        *)
(* notices are retried after an error up to max_retries requests, sleeping *)
(* attempt x BASE_DELAY seconds before retry number attempt, and return    *)
(* None when the last request fails too; the geocoding lookup, the         *)
(* directions lookup and the fetch of the bulletin list send one request   *)
(* and never sleep, a failure giving None, an empty list or an exception   *)
(* for the caller at once.                                                 *)
(***************************************************************************)
BusFetchesRetryOthersTryOnce ==
    /\ net_attempt <= max_retries
    /\ net_call.fn \in RetryingCalls =>
        /\ Len(net_waits) =
               IF net_ret = Pending THEN net_attempt ELSE net_attempt - 1
        /\ \A k \in 1..Len(net_waits) :
                /\ net_waits[k] = k * BASE_DELAY
                /\ net_call.plan[k] = "error"
        /\ (net_ret # Pending /\ net_call.plan[net_attempt] = "error") =>
                net_ret = "None" /\ net_attempt = max_retries
    /\ (net_call.fn \in SingleCalls /\ net_ret # Pending) =>
        /\ net_attempt = 1
        /\ net_waits = <<>>
        /\ net_call.plan[1] = "error" => net_ret \in {"None", "[]", "raise"}

(* A bus-notice fetch failed three times, having slept 2 and then 4        *)
(* seconds, and returned None.                                             *)
RetriesExhaustedWitness ==
    /\ net_call.fn \in RetryingCalls
    /\ net_attempt = max_retries
    /\ net_waits = <<BASE_DELAY, 2 * BASE_DELAY>>
    /\ net_ret = "None"
    /\ net_call.plan[max_retries] = "error"

(***************************************************************************)
(* AlarmStatusService: the alarm_tasks table under create_alarm_task and   *)
(* update_alarm_task_status.  A row keeps the two columns the status       *)
(* protocol is about; completed_at is NULL (NoTime) until an UPDATE sets   *)
(* it.  datetime.now() is the number of the call.                          *)
(***************************************************************************)
NumTasks == 2
MaxCalls == 4

TaskIds == 1..NumTasks

Statuses == {"pending", "processing", "completed", "failed", "partial"}

NoTime == 0

(* The row INSERTed by create_alarm_task: status "pending", completed_at   *)
(* not named and so NULL.                                                  *)
CreatedTask == [status |-> "pending", completed_at |-> NoTime]

CompletedAtKept(status, now, old) == old

(* "if status in [completed, failed, partial]: completed_at = now"; the    *)
(* column keeps its value otherwise.                                       *)
CompletedAt(status, now, old) ==
    IF status \in {"completed", "failed", "partial"} THEN now ELSE old

(* The UPDATE ... WHERE task_id = ? statement: rows that match get the new *)
(* status and, for a final status, completed_at.                           *)
UpdatedTasks(tasks, task_id, status, now) ==
    [t \in DOMAIN tasks |->
        IF t = task_id
        THEN [status |-> status,
              completed_at |-> CompletedAt(status, now, tasks[t].completed_at)]
        ELSE tasks[t]]

InitAlarm ==
    /\ IdleButAlarm
    /\ alarm_tasks = <<>>
    /\ alarm_last = NoAlarmCall
    /\ alarm_updated = {}
    /\ alarm_clock = 0

(* create_alarm_task: task_id is a fresh uuid4; the row is inserted and    *)
(* committed, and the task_id returned.                                    *)
CreateAlarmTask ==
    /\ alarm_clock < MaxCalls
    /\ \E task_id \in TaskIds \ DOMAIN alarm_tasks :
        /\ alarm_tasks' = [t \in DOMAIN alarm_tasks \cup {task_id} |->
                             IF t = task_id THEN CreatedTask ELSE alarm_tasks[t]]
        /\ alarm_last' = [op |-> "create", task_id |-> task_id,
                          before |-> alarm_tasks]
    /\ alarm_clock' = alarm_clock + 1
    /\ UNCHANGED alarm_updated
    /\ UNCHANGED otherThanAlarm

(* update_alarm_task_status: the UPDATE and its commit; rowcount = 0       *)
(* returns False.  When the connection or a statement raises, nothing is   *)
(* committed (the connection is closed) and False is returned.             *)
UpdateAlarmTaskStatus ==
    /\ alarm_clock < MaxCalls
    /\ \E task_id \in TaskIds, status \in Statuses, raises \in BOOLEAN :
        /\ alarm_tasks' = IF raises THEN alarm_tasks
                          ELSE UpdatedTasks(alarm_tasks, task_id, status,
                                            alarm_clock + 1)
        /\ alarm_last' = [op |-> "update", task_id |-> task_id,
                          before |-> alarm_tasks,
                          ret |-> ~raises /\ task_id \in DOMAIN alarm_tasks]
        /\ alarm_updated' = IF ~raises /\ task_id \in DOMAIN alarm_tasks
                            THEN alarm_updated \cup {task_id}
                            ELSE alarm_updated
    /\ alarm_clock' = alarm_clock + 1
    /\ UNCHANGED otherThanAlarm

NextAlarm == CreateAlarmTask \/ UpdateAlarmTaskStatus

SpecAlarm == InitAlarm /\ [][NextAlarm]_vars

(* C21: after any sequence of create_alarm_task and                        *)
(* update_alarm_task_status calls, a task that was only created has status *)
(* pending, every task whose status is completed, failed or partial has    *)
(* completed_at set, and an update addressed to an unknown task_id returns *)
(* False and leaves the table as it was.                                   *)
AlarmTaskStatusProtocol ==
    /\ \A t \in DOMAIN alarm_tasks :
        /\ t \notin alarm_updated => alarm_tasks[t].status = "pending"
        /\ alarm_tasks[t].status \in {"completed", "failed", "partial"}
              => alarm_tasks[t].completed_at # NoTime
    /\ (alarm_last.op = "update" /\ alarm_last.task_id \notin DOMAIN alarm_last.before)
          => /\ alarm_last.ret = FALSE
             /\ alarm_tasks = alarm_last.before

(* A created task was completed, and the latest call was an update of a    *)
(* task_id that is not in the table.                                       *)
CompletedAndUnknownUpdateWitness ==
    /\ alarm_last.op = "update"
    /\ alarm_last.task_id \notin DOMAIN alarm_last.before
    /\ \E t \in DOMAIN alarm_tasks :
        /\ t \in alarm_updated
        /\ alarm_tasks[t].status = "completed"
        /\ alarm_tasks[t].completed_at # NoTime

(***************************************************************************)
(* EventService.check_route_events and scheduled_route_check.              *)
(*                                                                         *)
(* A user is a row of the users table with a registered route: the         *)
(* departure name, the two end points, and what get_route_coordinates      *)
(* answers for the route (<<>> when the directions request failed, timed   *)
(* out or found no route).  The plusfriend_user_key of a user is its       *)
(* position in rc_users, the id of an event its position in rc_events.     *)
(***************************************************************************)
MaxUsers == 2
MaxEvents == 2

DepartureNames == {"gangnam", "yeoksam"}

DeparturePoint(departure_name) == IF departure_name = "gangnam" THEN 1 ELSE 2

Destinations == {2, 3}

EventPoints == {3, 5, 6}

RouteUsers ==
    {u \in [departure_name : DepartureNames, dep : {1, 2}, arr : Destinations,
            directions : SeqsUpTo(Points, MaxRoute)] :
        /\ u.dep = DeparturePoint(u.departure_name)
        /\ u.directions \in {<<>>, <<u.dep, u.arr>>}}

(* The loop body with the fallback taken whenever the polyline test fails. *)
EventOnRouteEitherTest(user, event) ==
    \/ is_event_near_route_accurate(user.directions, event, DEFAULT_THRESHOLD)
    \/ is_point_near_route(user.dep, user.arr, event, DEFAULT_THRESHOLD)

(* "if route_coordinates and is_event_near_route_accurate(...)" /           *)
(* "elif not route_coordinates and is_point_near_route(...)".              *)
EventOnRoute(user, event) ==
    \/ /\ user.directions # <<>>
       /\ is_event_near_route_accurate(user.directions, event, DEFAULT_THRESHOLD)
    \/ /\ user.directions = <<>>
       /\ is_point_near_route(user.dep, user.arr, event, DEFAULT_THRESHOLD)

(* The tests the two conditions call for one event: "and" does not         *)
(* evaluate its right side when the left side is false.                    *)
TestsEvaluated(user) ==
    IF user.directions # <<>> THEN {"polyline"} ELSE {"straight"}

(* route_events: the ids of the events appended by the loop, from k on. *)
RECURSIVE RouteEvents(_, _, _)
RouteEvents(user, events, k) ==
    IF k > Len(events) THEN <<>>
    ELSE IF EventOnRoute(user, events[k])
        THEN <<k>> \o RouteEvents(user, events, k + 1)
    ELSE RouteEvents(user, events, k + 1)

(* grouped_users[departure].append(member), the key being created when it *)
(* is not there.                                                           *)
RECURSIVE GroupAppend(_, _, _, _)
GroupAppend(groups, k, departure, member) ==
    IF k > Len(groups)
        THEN Append(groups, [departure |-> departure, members |-> <<member>>])
    ELSE IF groups[k].departure = departure
        THEN [groups EXCEPT ![k].members = Append(@, member)]
    ELSE GroupAppend(groups, k + 1, departure, member)

UserIds(user_group) ==
    [k \in 1..Len(user_group) |-> user_group[k].plusfriend_key]

FirstMemberEvents(user_group) == user_group[1].events

InitRouteCheck ==
    /\ IdleButCheck
    /\ rc_users \in SeqsUpTo(RouteUsers, MaxUsers)
    /\ rc_events \in SeqsUpTo(EventPoints, MaxEvents)
    /\ rc_found = <<>>
    /\ rc_groups = <<>>
    /\ rc_sent = <<>>
    /\ rc_pc = "check"

(* One pass of "for user_row in users": check_route_events for the user,   *)
(* and the user joins the group of its departure when events were found.   *)
CheckRouteEvents ==
    /\ rc_pc = "check"
    /\ Len(rc_found) < Len(rc_users)
    /\ rc_found' = Append(rc_found,
          [events_found |-> RouteEvents(rc_users[Len(rc_found) + 1], rc_events, 1),
           tests |-> TestsEvaluated(rc_users[Len(rc_found) + 1])])
    /\ rc_groups' =
          IF RouteEvents(rc_users[Len(rc_found) + 1], rc_events, 1) # <<>>
          THEN GroupAppend(rc_groups, 1,
                   rc_users[Len(rc_found) + 1].departure_name,
                   [plusfriend_key |-> Len(rc_found) + 1,
                    events |-> RouteEvents(rc_users[Len(rc_found) + 1], rc_events, 1)])
          ELSE rc_groups
    /\ UNCHANGED <<rc_users, rc_events, rc_sent, rc_pc>>
    /\ UNCHANGED otherThanCheck

(* The user loop is over. *)
StartSending ==
    /\ rc_pc = "check"
    /\ Len(rc_found) = Len(rc_users)
    /\ rc_pc' = "send"
    /\ UNCHANGED <<rc_users, rc_events, rc_found, rc_groups, rc_sent>>
    /\ UNCHANGED otherThanCheck

(* One pass of "for departure, user_group in grouped_users.items()": one   *)
(* send_bulk_alert call for the group, with the events of its first        *)
(* member.                                                                 *)
SendBulkAlert ==
    /\ rc_pc = "send"
    /\ Len(rc_sent) < Len(rc_groups)
    /\ rc_sent' = Append(rc_sent,
          [user_ids |-> UserIds(rc_groups[Len(rc_sent) + 1].members),
           events_data |-> FirstMemberEvents(rc_groups[Len(rc_sent) + 1].members)])
    /\ UNCHANGED <<rc_users, rc_events, rc_found, rc_groups, rc_pc>>
    /\ UNCHANGED otherThanCheck

(* Every group was sent: scheduled_route_check returns. *)
RouteCheckReturns ==
    /\ rc_pc = "send"
    /\ Len(rc_sent) = Len(rc_groups)
    /\ rc_pc' = "done"
    /\ UNCHANGED <<rc_users, rc_events, rc_found, rc_groups, rc_sent>>
    /\ UNCHANGED otherThanCheck

NextRouteCheck ==
    CheckRouteEvents \/ StartSending \/ SendBulkAlert \/ RouteCheckReturns

SpecRouteCheck == InitRouteCheck /\ [][NextRouteCheck]_vars

Reported(found, k) == \E n \in 1..Len(found.events_found) : found.events_found[n] = k

Range(seq) == {seq[n] : n \in 1..Len(seq)}

(* C27: in scheduled_route_check every user who is sent an alert receives  *)
(* exactly the set of events that check_route_events found near that       *)
(* user's own route, and a user with no event near their route is sent     *)
(* nothing, also when users share a departure name and differ in their     *)
(* destination.                                                            *)
EachUserSentOwnEvents ==
    rc_pc = "done" =>
        \A u \in 1..Len(rc_users), a \in 1..Len(rc_sent) :
            u \in Range(rc_sent[a].user_ids) =>
                /\ rc_found[u].events_found # <<>>
                /\ Range(rc_sent[a].events_data) = Range(rc_found[u].events_found)

(***************************************************************************)
(* CrawlingService._normalize_time_str and _parse_event_datetime.          *)
(*                                                                         *)
(* A time string is the sequence of its characters ("mi", "jeong" is the   *)
(* undetermined-end marker "미정" of the table source).  The row keys "년", *)
(* "월", "일" are nyeon, wol, il, already numbers.  A datetime text         *)
(* "YYYY-MM-DD HH:MM:00" is the pair of its two halves.                    *)
(***************************************************************************)
MaxTimePieces == 3
MaxConvRows == 2

DigitChars == <<"0", "1", "2", "3", "4", "5", "6", "7", "8", "9">>

DigitValue(c) == CHOOSE n \in 0..9 : DigitChars[n + 1] = c

(* the value of a run of decimal digits *)
RECURSIVE DigitsValue(_, _)
DigitsValue(t, acc) ==
    IF t = <<>> THEN acc
    ELSE DigitsValue(Tail(t), 10 * acc + DigitValue(Head(t)))

(* str(n) for n >= 0 *)
RECURSIVE IntText(_)
IntText(n) ==
    IF n < 10 THEN <<DigitChars[n + 1]>>
    ELSE IntText(n \div 10) \o <<DigitChars[(n % 10) + 1]>>

(* f"{n:02d}" *)
Pad2(n) ==
    IF n < 0 THEN <<"-">> \o IntText(0 - n)
    ELSE IF n < 10 THEN <<"0">> \o IntText(n)
    ELSE IntText(n)

(* int(p): white space around the literal and one sign before the digits  *)
(* are accepted; anything else raises ValueError.                          *)
IntBody(t) == IF t # <<>> /\ Head(t) \in {"-", "+"} THEN Tail(t) ELSE t

IntRaises(p) ==
    \/ IntBody(StripWs(p)) = <<>>
    \/ \E n \in 1..Len(IntBody(StripWs(p))) : IntBody(StripWs(p))[n] \notin Digits

IntValue(p) ==
    IF Head(StripWs(p)) = "-" THEN 0 - DigitsValue(IntBody(StripWs(p)), 0)
    ELSE DigitsValue(IntBody(StripWs(p)), 0)

DefaultTime == <<"0", "9", ":", "0", "0">>

ColonCount(t) == Len(SelectSeq(t, LAMBDA c : c = ":"))

ColonIndex(t) == CHOOSE n \in 1..Len(t) : t[n] = ":" /\ \A k \in 1..(n - 1) : t[k] # ":"

(* the range test left out *)
NormalizeHourMinuteUnchecked(hour, minute) ==
    Pad2(hour) \o <<":">> \o Pad2(minute)

(* "if not (0 <= hour <= 23) or not (0 <= minute <= 59): return 09:00",    *)
(* else f"{hour:02d}:{minute:02d}".                                        *)
NormalizeHourMinute(hour, minute) ==
    IF ~ (0 <= hour /\ hour <= 23) \/ ~ (0 <= minute /\ minute <= 59)
        THEN DefaultTime
    ELSE Pad2(hour) \o <<":">> \o Pad2(minute)

(* the try block over parts[0] and parts[1] *)
NormalizeParts(hour_text, minute_text) ==
    IF IntRaises(hour_text) \/ IntRaises(minute_text) THEN DefaultTime
    ELSE NormalizeHourMinute(IntValue(hour_text), IntValue(minute_text))

(* "if ':' not in time_str" and "if len(parts) != 2" on the stripped text *)
NormalizeStripped(t) ==
    IF ColonCount(t) # 1 THEN DefaultTime
    ELSE NormalizeParts(SubSeq(t, 1, ColonIndex(t) - 1),
                        SubSeq(t, ColonIndex(t) + 1, Len(t)))

(* _normalize_time_str *)
NormalizeTimeStr(time_str) == NormalizeStripped(StripWs(time_str))

IsLeapYear(year) ==
    year % 4 = 0 /\ (year % 100 # 0 \/ year % 400 = 0)

DaysInMonth(year, month) ==
    IF month = 2 THEN (IF IsLeapYear(year) THEN 29 ELSE 28)
    ELSE IF month \in {4, 6, 9, 11} THEN 30
    ELSE 31

(* datetime(year, month, day) does not raise ValueError *)
DateValid(year, month, day) ==
    /\ 1 <= year /\ year <= 9999
    /\ 1 <= month /\ month <= 12
    /\ 1 <= day /\ day <= DaysInMonth(year, month)

(* f"{year}-{month:02d}-{day:02d}" *)
DateText(year, month, day) ==
    IntText(year) \o <<"-">> \o Pad2(month) \o <<"-">> \o Pad2(day)

(* one of the two texts _parse_event_datetime returns *)
DatetimeOf(row, time_str) ==
    <<DateText(row.nyeon, row.wol, row.il),
      NormalizeTimeStr(time_str) \o <<":", "0", "0">> >>

(* The event built for a row whose date is valid; the geocoder is taken to *)
(* find nothing, so the coordinates are the defaults.                      *)
ConvertDatetimeRow(row) ==
    [end_date |-> DatetimeOf(row, row.end_time)]
        @@ MakeEvent(BuildTitle(FirstPlace(row.places), row.headcount),
                     FirstPlace(row.places), DEFAULT_LATITUDE, DEFAULT_LONGITUDE,
                     DatetimeOf(row, row.start_time))

(* The loop of _convert_raw_events_to_db_format: a row that fails          *)
(* _validate_row_data, or whose date raises ValueError, is skipped with    *)
(* "continue".                                                             *)
(* the loop ended by the first row that is skipped *)
RECURSIVE ConvertDatetimeRowsStopping(_, _)
ConvertDatetimeRowsStopping(rows, i) ==
    IF i > Len(rows) THEN <<>>
    ELSE IF ~ ValidateRowData(rows[i])
              \/ ~ DateValid(rows[i].nyeon, rows[i].wol, rows[i].il)
        THEN <<>>
    ELSE <<ConvertDatetimeRow(rows[i])>> \o ConvertDatetimeRowsStopping(rows, i + 1)

RECURSIVE ConvertDatetimeRows(_, _)
ConvertDatetimeRows(rows, i) ==
    IF i > Len(rows) THEN <<>>
    ELSE IF ~ ValidateRowData(rows[i])
              \/ ~ DateValid(rows[i].nyeon, rows[i].wol, rows[i].il)
        THEN ConvertDatetimeRows(rows, i + 1)
    ELSE <<ConvertDatetimeRow(rows[i])>> \o ConvertDatetimeRows(rows, i + 1)

TimePieces ==
    {<<"9">>, <<"1", "0">>, <<"2", "4">>, <<":">>, <<":", "0", "0">>,
     <<":", "6", "0">>, <<" ">>, <<"-">>, <<"mi", "jeong">>}

TimeTexts == {Join(pieces) : pieces \in SeqsUpTo(TimePieces, MaxTimePieces)}

(* end_time of the rows: a clock time, a time TIME_RE accepts with an hour *)
(* that is none, and the two end markers of _time_range_to_tuple.          *)
EndTexts ==
    {<<"1", "8", ":", "0", "0">>, <<"2", "4", ":", "0", "0">>,
     <<"mi", "jeong">>}

ConvDates == {<<2024, 2, 29>>, <<2025, 2, 29>>, <<2025, 8, 15>>}

ConvRow(date, start_time, end_time, place) ==
    [nyeon |-> date[1], wol |-> date[2], il |-> date[3],
     start_time |-> start_time, end_time |-> end_time,
     places |-> <<place>>, headcount |-> "", remark |-> "SPATIC"]

(* one row with any start_time text *)
AnyTimeRows ==
    {ConvRow(date, start_time, end_time, <<"mun">>) :
        date \in ConvDates, start_time \in TimeTexts,
        end_time \in {<<"1", "8", ":", "0", "0">>, <<"2", "4", ":", "0", "0">>}}

(* rows as the sources build them, at one start time *)
SourceRows ==
    {ConvRow(date, <<"1", "0", ":", "0", "0">>, end_time, place) :
        date \in ConvDates, end_time \in EndTexts, place \in CrawlNames}

InitConvert ==
    /\ IdleButConv
    /\ \/ cv_rows \in {<<row>> : row \in AnyTimeRows}
       \/ cv_rows \in SeqsUpTo(SourceRows, MaxConvRows)
    /\ cv_events = <<>>
    /\ cv_store = <<>>
    /\ cv_result = NoResult
    /\ cv_pc = "convert"

(* db_events = await _convert_raw_events_to_db_format(raw_events) *)
ConvertRawEvents ==
    /\ cv_pc = "convert"
    /\ cv_events' = ConvertDatetimeRows(cv_rows, 1)
    /\ cv_pc' = "sync"
    /\ UNCHANGED <<cv_rows, cv_store, cv_result>>
    /\ UNCHANGED otherThanConv

(* _sync_events_to_db on the converted events, into an empty table; any    *)
(* statement may raise.                                                    *)
SyncConverted ==
    /\ cv_pc = "sync"
    /\ \E failAt \in SUBSET (1..Len(cv_events)), txFail \in BOOLEAN :
        /\ cv_store' = SyncEventsToDb(<<>>, cv_events, failAt, txFail).rows
        /\ cv_result' = SyncEventsToDb(<<>>, cv_events, failAt, txFail).result
    /\ cv_pc' = "done"
    /\ UNCHANGED <<cv_rows, cv_events>>
    /\ UNCHANGED otherThanConv

NextConvert == ConvertRawEvents \/ SyncConverted

SpecConvert == InitConvert /\ [][NextConvert]_vars

(* p is an integer literal of value v: a run of digits, with white space   *)
(* around it and a sign before it allowed.                                 *)
RECURSIVE DropZeros(_)
DropZeros(t) == IF t # <<>> /\ Head(t) = "0" THEN DropZeros(Tail(t)) ELSE t

Denotes(p, v) ==
    \E a \in 0..Len(p), b \in 0..Len(p) :
        /\ a < b
        /\ \A n \in 1..Len(p) : (n <= a \/ n > b) => p[n] \in WhiteSpace
        /\ \/ /\ \A n \in (a + 1)..b : p[n] \in Digits
              /\ DropZeros(SubSeq(p, a + 1, b)) = IF v = 0 THEN <<>> ELSE IntText(v)
           \/ /\ p[a + 1] \in {"+", "-"}
              /\ a + 1 < b
              /\ \A n \in (a + 2)..b : p[n] \in Digits
              /\ DropZeros(SubSeq(p, a + 2, b)) = IF v = 0 THEN <<>> ELSE IntText(v)
              /\ p[a + 1] = "-" => v = 0

(* t is of the form H:M with hour H and minute M *)
Reads(t, hour, minute) ==
    \E n \in 1..Len(t) :
        /\ t[n] = ":"
        /\ \A k \in 1..Len(t) : t[k] = ":" => k = n
        /\ Denotes(SubSeq(t, 1, n - 1), hour)
        /\ Denotes(SubSeq(t, n + 1, Len(t)), minute)

(* t is of the form H:M with an hour of 0-23 and a minute of 0-59 *)
IsClockTime(t) ==
    \E n \in 1..Len(t) :
        /\ t[n] = ":"
        /\ \A k \in 1..Len(t) : t[k] = ":" => k = n
        /\ \E hour \in 0..23 : Denotes(SubSeq(t, 1, n - 1), hour)
        /\ \E minute \in 0..59 : Denotes(SubSeq(t, n + 1, Len(t)), minute)

(* the text is HH:MM:00 *)
IsTimeText(text) ==
    /\ Len(text) = 8
    /\ \A n \in {1, 2, 4, 5} : text[n] \in Digits
    /\ text[3] = ":"
    /\ SubSeq(text, 6, 8) = <<":", "0", "0">>

HourShown(text) == DigitsValue(SubSeq(text, 1, 2), 0)

MinuteShown(text) == DigitsValue(SubSeq(text, 4, 5), 0)

(* the text is YYYY-MM-DD for the date of the row *)
ShowsDateOf(text, row) ==
    /\ Len(text) = 10
    /\ DigitsValue(SubSeq(text, 1, 4), 0) = row.nyeon
    /\ text[5] = "-"
    /\ DigitsValue(SubSeq(text, 6, 7), 0) = row.wol
    /\ text[8] = "-"
    /\ DigitsValue(SubSeq(text, 9, 10), 0) = row.il

(* the datetime is the row's date with the time string as the claim reads  *)
(* it: the clock time it denotes, or 09:00 when it denotes none            *)
CombinesDateAndTime(datetime, row, time_str) ==
    /\ ShowsDateOf(datetime[1], row)
    /\ IsTimeText(datetime[2])
    /\ IF IsClockTime(time_str)
       THEN Reads(time_str, HourShown(datetime[2]), MinuteShown(datetime[2]))
       ELSE HourShown(datetime[2]) = 9 /\ MinuteShown(datetime[2]) = 0

RowsWithDate(rows) ==
    SelectSeq(rows, LAMBDA row : DateValid(row.nyeon, row.wol, row.il))

(* C23: when start_date and end_date are built, a time string whose hour   *)
(* is outside 0-23, whose minute is outside 0-59, or which is not of the   *)
(* form H:M is replaced by 09:00, a valid one is zero-padded to HH:MM, and *)
(* the datetime combines the row's own date with that time.                *)
TimesNormalizedAndCombinedWithDate ==
    cv_pc # "convert" =>
        /\ Len(cv_events) = Len(RowsWithDate(cv_rows))
        /\ \A k \in 1..Len(cv_events) :
            /\ CombinesDateAndTime(cv_events[k].start_date,
                                   RowsWithDate(cv_rows)[k],
                                   RowsWithDate(cv_rows)[k].start_time)
            /\ CombinesDateAndTime(cv_events[k].end_date,
                                   RowsWithDate(cv_rows)[k],
                                   RowsWithDate(cv_rows)[k].end_time)

(* A row with start_time "9:10" and end_time "24:00" was converted:        *)
(* start_date reads 09:10:00 and end_date 09:00:00.                        *)
PaddedStartClampedEndWitness ==
    /\ cv_pc = "done"
    /\ Len(cv_rows) = 1
    /\ Len(cv_events) = 1
    /\ cv_rows[1].start_time = <<"9", ":", "1", "0">>
    /\ cv_rows[1].end_time = <<"2", "4", ":", "0", "0">>
    /\ cv_events[1].start_date[2] = <<"0", "9", ":", "1", "0", ":", "0", "0">>
    /\ cv_events[1].end_date[2] = <<"0", "9", ":", "0", "0", ":", "0", "0">>

EventFromRow(event, row) ==
    /\ event.location_name = FirstPlace(row.places)
    /\ ShowsDateOf(event.start_date[1], row)
    /\ ShowsDateOf(event.end_date[1], row)

RowsWithDateAndTimes(rows) ==
    SelectSeq(rows, LAMBDA row : /\ DateValid(row.nyeon, row.wol, row.il)
                                 /\ IsClockTime(row.start_time)
                                 /\ IsClockTime(row.end_time))

(* the events are those of the given rows, one each and in order, and      *)
(* _sync_events_to_db went through all of them unless the transaction      *)
(* failed                                                                  *)
ConvertedAndSynchronized(rows) ==
    /\ Len(cv_events) = Len(rows)
    /\ \A k \in 1..Len(cv_events) : EventFromRow(cv_events[k], rows[k])
    /\ ~ cv_result.raised =>
          cv_result.inserted + cv_result.duplicate + cv_result.error = Len(rows)

(* C24 as stated: a row whose date or time cannot be parsed produces no    *)
(* Event, while every other row of the same run is still converted and     *)
(* synchronized.                                                           *)
RowWithoutDateOrTimeDropped ==
    cv_pc = "done" => ConvertedAndSynchronized(RowsWithDateAndTimes(cv_rows))

(* C24, amended: a row whose date cannot be parsed produces no Event (a    *)
(* time that cannot be parsed is replaced by 09:00 and the row is kept),   *)
(* while every other row of the same run is still converted and            *)
(* synchronized.                                                           *)
RowWithoutDateDropped ==
    cv_pc = "done" => ConvertedAndSynchronized(RowsWithDate(cv_rows))

(* Of two rows the first had an impossible date and the second an end time *)
(* that is no clock time: the run stored one event, that of the second.    *)
BadDateDroppedBadTimeKeptWitness ==
    /\ cv_pc = "done"
    /\ Len(cv_rows) = 2
    /\ ~ DateValid(cv_rows[1].nyeon, cv_rows[1].wol, cv_rows[1].il)
    /\ DateValid(cv_rows[2].nyeon, cv_rows[2].wol, cv_rows[2].il)
    /\ cv_rows[2].end_time = <<"mi", "jeong">>
    /\ Len(cv_events) = 1
    /\ Len(cv_store) = 1
    /\ cv_store[1].location_name = FirstPlace(cv_rows[2].places)

TimeBefore(a, b) ==
    \/ HourShown(a) < HourShown(b)
    \/ HourShown(a) = HourShown(b) /\ MinuteShown(a) < MinuteShown(b)

(* C29: every Event built by the ingestion pipeline has end_date not       *)
(* earlier than start_date, for every row either source can produce, rows  *)
(* of the table source whose end is the undetermined-end marker included.  *)
EndNotBeforeStart ==
    \A k \in 1..Len(cv_events) :
        /\ cv_events[k].end_date[1] = cv_events[k].start_date[1]
        /\ ~ TimeBefore(cv_events[k].end_date[2], cv_events[k].start_date[2])

(***************************************************************************)
(* The table source: split_places, _time_range_to_tuple and                *)
(* _parse_detail_to_groups of spatic_crawler.py.                           *)
(*                                                                         *)
(* A cell text is what _extract_text_with_structure returns for the cell.  *)
(* Hangul syllables are written by their romanization; "->" and "<->" are  *)
(* the arrows U+2192 and U+2194.  The other separator glyphs of            *)
(* split_places and the dash variants of _time_range_to_tuple do not occur *)
(* in the texts explored.                                                  *)
(***************************************************************************)
MaxCellPieces == 3
MaxTableRows == 3

(* re.sub(r"\s+", " ", t) *)
RECURSIVE CollapseWs(_)
CollapseWs(t) ==
    IF t = <<>> THEN <<>>
    ELSE IF Head(t) \in WhiteSpace
        THEN <<" ">> \o CollapseWs(Drop(t, WsRun(t)))
    ELSE <<Head(t)>> \o CollapseWs(Tail(t))

(* _clean_text *)
CleanText(t) == StripWs(CollapseWs(t))

(* the separators of the pattern of re.split in split_places *)
PlaceSeparators == {"->", "<->", "~", "/", ","}

(* [가-힣A-Za-z] over the characters of the cell texts *)
Letters ==
    {"gwang", "hwa", "mun", "si", "cheong", "chul", "gu", "ro", "gil", "cha",
     "gae", "o", "jeon", "hu", "jong", "ryo", "kkeut", "nal", "ttae", "hae",
     "san", "mi", "jeong"}

(* re.split(separators, s), each part stripped *)
RECURSIVE SplitParts(_, _, _)
SplitParts(t, part, parts) ==
    IF t = <<>> THEN Append(parts, Strip(part))
    ELSE IF Head(t) \in PlaceSeparators
        THEN SplitParts(Tail(t), <<>>, Append(parts, Strip(part)))
    ELSE SplitParts(Tail(t), Append(part, Head(t)), parts)

(* \d+\s*개?차로 at the start of t *)
LaneAfterCount(t) ==
    IF StartsWith(t, <<"gae">>) THEN StartsWith(Tail(t), <<"cha", "ro">>)
    ELSE StartsWith(t, <<"cha", "ro">>)

LaneAt(t) ==
    /\ DigitRun(t) > 0
    /\ LaneAfterCount(Drop(t, DigitRun(t) + BlankRun(Drop(t, DigitRun(t)))))

(* re.search(r'\d+\s*개?차로', p) *)
HasLane(p) == \E n \in 1..Len(p) : LaneAt(Drop(p, n - 1))

(* the three "continue" tests of the filter loop *)
KeepPart(p) ==
    /\ ~ (Len(p) <= 1 /\ \A n \in 1..Len(p) : p[n] \notin Letters)
    /\ p \notin {<<"chul">>, <<"gu">>, <<"ro">>, <<"gil">>}
    /\ ~ HasLane(p)

(* every token kept, seen or not *)
RECURSIVE DedupKeepingAll(_, _)
DedupKeepingAll(tokens, final) ==
    IF tokens = <<>> THEN final
    ELSE DedupKeepingAll(Tail(tokens), Append(final, Head(tokens)))

(* final: the tokens that are not in seen, in order.  Also the loop         *)
(* "for p in place_tokens: if p not in groups[key]: groups[key].append(p)" *)
RECURSIVE Dedup(_, _)
Dedup(tokens, final) ==
    IF tokens = <<>> THEN final
    ELSE IF \E n \in 1..Len(final) : final[n] = Head(tokens)
        THEN Dedup(Tail(tokens), final)
    ELSE Dedup(Tail(tokens), Append(final, Head(tokens)))

split_places(s) ==
    Dedup(SelectSeq(SplitParts(CleanText(s), <<>>, <<>>), KeepPart), <<>>)

(* [~\-] between the two times, after the replacements of the tilde and    *)
(* dash variants by "~" and "-"                                            *)
RangeSeparators == {"~", "-"}

(* (\d{1,2}\s*:\s*\d{2})\s*[~\-]\s*(\d{1,2}\s*:\s*\d{2}) at the start of t, *)
(* by the steps of TIME_RE: the end time at offset b, the separator at     *)
(* offset p, the start time of length first_len.                           *)
TableRangeEnd(t, first_len, b) ==
    IF TimeLen(Drop(t, b)) > 0
        THEN [start |-> first_len, mid |-> b - first_len,
              end |-> TimeLen(Drop(t, b))]
    ELSE NoTimeRange

TableRangeSep(t, first_len, p) ==
    IF p < Len(t) /\ t[p + 1] \in RangeSeparators
        THEN TableRangeEnd(t, first_len, p + 1 + WsRun(Drop(t, p + 1)))
    ELSE NoTimeRange

TableRangeStart(t, first_len) ==
    IF first_len > 0
        THEN TableRangeSep(t, first_len, first_len + WsRun(Drop(t, first_len)))
    ELSE NoTimeRange

TableRangeParts(t) == TableRangeStart(t, TimeLen(t))

NoRange == <<>>      \* None

(* the tuple built from the first match of the range pattern *)
RangeTuple(t, parts) ==
    <<RemoveWs(SubSeq(t, 1, parts.start)),
      RemoveWs(SubSeq(t, parts.start + parts.mid + 1, PartsLen(parts)))>>

RECURSIVE SearchRange(_)
SearchRange(t) ==
    IF t = <<>> THEN NoRange
    ELSE IF PartsLen(TableRangeParts(t)) > 0 THEN RangeTuple(t, TableRangeParts(t))
    ELSE SearchRange(Tail(t))

(* word, white space, last: 종료\s*시 and 해산\s*시 *)
WordThen(t, word, last) ==
    /\ StartsWith(t, word)
    /\ StartsWith(Drop(t, Len(word) + WsRun(Drop(t, Len(word)))), last)

(* 끝날?\s*때 *)
EndWhenAt(t) ==
    IF StartsWith(t, <<"kkeut", "nal">>)
        THEN WordThen(t, <<"kkeut", "nal">>, <<"ttae">>)
    ELSE WordThen(t, <<"kkeut">>, <<"ttae">>)

(* re.search(r"종료\s*시|끝날?\s*때|해산\s*시", s) *)
HasEndWord(s) ==
    \E n \in 1..Len(s) :
        \/ WordThen(Drop(s, n - 1), <<"jong", "ryo">>, <<"si">>)
        \/ EndWhenAt(Drop(s, n - 1))
        \/ WordThen(Drop(s, n - 1), <<"hae", "san">>, <<"si">>)

Undetermined == <<"mi", "jeong">>            \* "미정"
UntilTheEnd == <<"jong", "ryo", "si">>       \* "종료시"

(* the second pattern: the first single time of s, with an end marker *)
RECURSIVE SearchTime(_, _)
SearchTime(t, s) ==
    IF t = <<>> THEN NoRange
    ELSE IF TimeLen(t) > 0
        THEN <<RemoveWs(SubSeq(t, 1, TimeLen(t))),
               IF HasEndWord(s) THEN UntilTheEnd ELSE Undetermined>>
    ELSE SearchTime(Tail(t), s)

(* (오전|오후)\s*(\d{1,2})\s*시 at the start of t: the number of digits of  *)
(* the hour, 0 for no match.  digits_at is the offset of the hour.         *)
MeridiemHour(t, digits_at) ==
    IF DigitRun(Drop(t, digits_at)) \in {1, 2}
          /\ StartsWith(Drop(t, digits_at + DigitRun(Drop(t, digits_at))
                                  + WsRun(Drop(t, digits_at
                                                  + DigitRun(Drop(t, digits_at))))),
                        <<"si">>)
        THEN DigitRun(Drop(t, digits_at))
    ELSE 0

MeridiemLen(t) ==
    IF StartsWith(t, <<"o", "jeon">>) \/ StartsWith(t, <<"o", "hu">>)
        THEN MeridiemHour(t, 2 + WsRun(Drop(t, 2)))
    ELSE 0

(* "if period == 오후 and hour != 12: hour += 12 / elif period == 오전 and  *)
(* hour == 12: hour = 0"                                                   *)
Hour24(period, hour) ==
    IF period = "hu" /\ hour # 12 THEN hour + 12
    ELSE IF period = "jeon" /\ hour = 12 THEN 0
    ELSE hour

MeridiemTuple(t, digits_at) ==
    <<Pad2(Hour24(t[2], DigitsValue(SubSeq(t, digits_at + 1,
                                           digits_at + MeridiemLen(t)), 0)))
         \o <<":", "0", "0">>,
      Undetermined>>

RECURSIVE SearchMeridiem(_)
SearchMeridiem(t) ==
    IF t = <<>> THEN NoRange
    ELSE IF MeridiemLen(t) > 0 THEN MeridiemTuple(t, 2 + WsRun(Drop(t, 2)))
    ELSE SearchMeridiem(Tail(t))

(* the three patterns on the cleaned text, in turn *)
TimeRangeOfClean(s) ==
    IF SearchRange(s) # NoRange THEN SearchRange(s)
    ELSE IF SearchTime(s, s) # NoRange THEN SearchTime(s, s)
    ELSE SearchMeridiem(s)

(* _time_range_to_tuple; "if not s: return None" is the empty text *)
time_range_to_tuple(s) == TimeRangeOfClean(CleanText(s))

(* re.sub(r"※\s*행진\s*[::]?\s*", " ", place_raw), "NOTE" being the     *)
(* reference mark U+203B and the colon either width: the length of label  *)
(* at the start of t, 0 for none.  word_at is the offset of "행진".         *)
MarchLabelColon(t, colon_at) ==
    IF colon_at < Len(t) /\ t[colon_at + 1] = ":"
        THEN colon_at + 1 + WsRun(Drop(t, colon_at + 1))
    ELSE colon_at

MarchLabelWord(t, word_at) ==
    IF StartsWith(Drop(t, word_at), <<"haeng", "jin">>)
        THEN MarchLabelColon(t, word_at + 2 + WsRun(Drop(t, word_at + 2)))
    ELSE 0

MarchLabelLen(t) ==
    IF StartsWith(t, <<"NOTE">>) THEN MarchLabelWord(t, 1 + WsRun(Drop(t, 1)))
    ELSE 0

RECURSIVE SubMarchLabel(_)
SubMarchLabel(t) ==
    IF t = <<>> THEN <<>>
    ELSE IF MarchLabelLen(t) > 0
        THEN <<" ">> \o SubMarchLabel(Drop(t, MarchLabelLen(t)))
    ELSE <<Head(t)>> \o SubMarchLabel(Tail(t))

(* _extract_text_with_structure(tr): the texts of the cells that are not   *)
(* empty, each followed by a line break, stripped.                         *)
CellLine(text) == IF text = <<>> THEN <<>> ELSE text \o <<"\n">>

RowText(row) ==
    StripWs(CellLine(row.time_text) \o CellLine(row.place_text)
            \o (IF row.has_route THEN CellLine(row.route_text) ELSE <<>>))

(* trange of the row: of the time cell, else of the whole row *)
RowRange(row) ==
    IF time_range_to_tuple(row.time_text) # NoRange
        THEN time_range_to_tuple(row.time_text)
    ELSE time_range_to_tuple(RowText(row))

(* place_tokens of the place cell, extended by those of the route cell *)
CellTokens(row) ==
    split_places(SubMarchLabel(row.place_text))
        \o (IF row.has_route THEN split_places(row.route_text) ELSE <<>>)

(* place_tokens of the row: of its cells, else of the whole row *)
RowTokens(row) ==
    IF CellTokens(row) # <<>> THEN CellTokens(row)
    ELSE split_places(RowText(row))

(* "if key not in groups: groups[key] = []" and the appending loop; k is   *)
(* the position the search for the key is at.                              *)
RECURSIVE AddToGroups(_, _, _, _)
AddToGroups(groups, k, key, tokens) ==
    IF k > Len(groups)
        THEN Append(groups, [key |-> key, places |-> Dedup(tokens, <<>>)])
    ELSE IF groups[k].key = key
        THEN [groups EXCEPT ![k].places = Dedup(tokens, @)]
    ELSE AddToGroups(groups, k + 1, key, tokens)

(* the loop "for tr in rows[1:]" from row i on *)
RECURSIVE ParseDetailToGroups(_, _, _)
ParseDetailToGroups(rows, i, groups) ==
    IF i > Len(rows) THEN groups
    ELSE IF RowRange(rows[i]) = NoRange \/ RowTokens(rows[i]) = <<>>
        THEN ParseDetailToGroups(rows, i + 1, groups)
    ELSE ParseDetailToGroups(rows, i + 1,
             AddToGroups(groups, 1, RowRange(rows[i]), RowTokens(rows[i])))

TimeCellPieces ==
    {<<"1", "0", ":", "0", "0">>, <<"1", "2", ":", "0", "0">>, <<"~">>,
     <<"o", "hu">>, <<"o", "jeon">>, <<"1", "2">>, <<"si">>, <<"jong", "ryo">>}

PlaceCellPieces ==
    {<<"gwang", "hwa", "mun">>, <<"si", "cheong">>, <<"->">>, <<",">>,
     <<"\n">>, <<"chul">>, <<"2">>, <<"cha", "ro">>}

CellRow(time_text, place_text, has_route, route_text) ==
    [time_text |-> time_text, place_text |-> place_text,
     has_route |-> has_route, route_text |-> route_text]

(* one row with any time cell, and one row with any place cell *)
AnyCellRows ==
    {CellRow(Join(pieces), <<"gwang", "hwa", "mun">>, FALSE, <<>>) :
        pieces \in SeqsUpTo(TimeCellPieces, MaxCellPieces)}
    \cup
    {CellRow(<<"1", "0", ":", "0", "0">>, Join(pieces), FALSE, <<>>) :
        pieces \in SeqsUpTo(PlaceCellPieces, MaxCellPieces)}

RangeCell == <<"1", "0", ":", "0", "0", "~", "1", "2", ":", "0", "0">>

StartCell == <<"1", "0", ":", "0", "0">>

(* the rows of the tables of several rows: two time cells and an empty     *)
(* one, place cells that share tokens, a route column, a march label       *)
TableRows ==
    {CellRow(RangeCell, <<"gwang", "hwa", "mun", "->", "si", "cheong">>, FALSE, <<>>),
     CellRow(RangeCell, <<"si", "cheong">>, FALSE, <<>>),
     CellRow(RangeCell, <<>>, TRUE, <<"gwang", "hwa", "mun">>),
     CellRow(RangeCell, <<>>, FALSE, <<>>),
     CellRow(StartCell, <<"gwang", "hwa", "mun", "->", "si", "cheong">>, FALSE, <<>>),
     CellRow(StartCell, <<"si", "cheong">>, TRUE, <<"gwang", "hwa", "mun">>),
     CellRow(StartCell, <<"NOTE", "haeng", "jin", ":", " ", "si", "cheong">>, FALSE, <<>>),
     CellRow(StartCell, <<"gwang", "hwa", "mun">>, FALSE, <<>>),
     CellRow(<<>>, <<"si", "cheong">>, FALSE, <<>>),
     CellRow(<<>>, <<>>, FALSE, <<>>)}

InitTable ==
    /\ IdleButTable
    /\ \/ tb_rows \in {<<row>> : row \in AnyCellRows}
       \/ tb_rows \in SeqsUpTo(TableRows, MaxTableRows)
    /\ tb_groups = <<>>
    /\ tb_pc = "input"

(* groups = _parse_detail_to_groups(r.text) *)
ParseDetail ==
    /\ tb_pc = "input"
    /\ tb_groups' = ParseDetailToGroups(tb_rows, 1, <<>>)
    /\ tb_pc' = "done"
    /\ UNCHANGED tb_rows
    /\ UNCHANGED otherThanTable

NextTable == ParseDetail

SpecTable == InitTable /\ [][NextTable]_vars


(* the rows that reach the grouping: a time range and at least one token *)
Contributes(row) == RowRange(row) # NoRange /\ RowTokens(row) # <<>>

(* the tokens of the rows from i on that have the pair, in table order *)
RECURSIVE TokensOfPair(_, _, _)
TokensOfPair(rows, i, pair) ==
    IF i > Len(rows) THEN <<>>
    ELSE IF Contributes(rows[i]) /\ RowRange(rows[i]) = pair
        THEN RowTokens(rows[i]) \o TokensOfPair(rows, i + 1, pair)
    ELSE TokensOfPair(rows, i + 1, pair)

FirstIndex(seq, x) ==
    CHOOSE i \in 1..Len(seq) : seq[i] = x /\ \A j \in 1..(i - 1) : seq[j] # x

(* the (start, end) pair of every contributing row, in table order *)
PairsOf(rows) ==
    SelectSeq([i \in 1..Len(rows) |->
                  IF Contributes(rows[i]) THEN RowRange(rows[i]) ELSE NoRange],
              LAMBDA pair : pair # NoRange)

(* seq holds every member of all once, ordered by first appearance in all *)
DistinctInFirstAppearanceOrder(seq, all) ==
    /\ Range(seq) = Range(all)
    /\ \A i, j \in 1..Len(seq) :
           i < j => FirstIndex(all, seq[i]) < FirstIndex(all, seq[j])

(* C25: the parse of a table yields one group per distinct (start, end)    *)
(* pair of its rows, in order of first appearance; the places of a group   *)
(* are the tokens of all rows with that pair, each once and in order of    *)
(* first appearance, and no group is empty.                                *)
GroupsPerPairDeduplicatedInOrder ==
    tb_pc = "done" =>
        /\ DistinctInFirstAppearanceOrder(
               [k \in 1..Len(tb_groups) |-> tb_groups[k].key], PairsOf(tb_rows))
        /\ \A k \in 1..Len(tb_groups) :
               /\ DistinctInFirstAppearanceOrder(tb_groups[k].places,
                      TokensOfPair(tb_rows, 1, tb_groups[k].key))
               /\ tb_groups[k].places # <<>>

(* a table of three rows was parsed into two groups: the first and third   *)
(* rows share a pair and a token, the second row has another pair, and the *)
(* first group holds the shared token once.                                *)
PairRepeatedAcrossRowsWitness ==
    /\ tb_pc = "done"
    /\ Len(tb_rows) = 3
    /\ Len(tb_groups) = 2
    /\ \A i \in 1..3 : Contributes(tb_rows[i])
    /\ RowRange(tb_rows[1]) = RowRange(tb_rows[3])
    /\ RowRange(tb_rows[1]) # RowRange(tb_rows[2])
    /\ Range(RowTokens(tb_rows[1])) \cap Range(RowTokens(tb_rows[3])) # {}
    /\ Range(RowTokens(tb_rows[3])) \ Range(RowTokens(tb_rows[1])) # {}
    /\ Len(tb_groups[1].places)
           < Len(RowTokens(tb_rows[1])) + Len(RowTokens(tb_rows[3]))

(***************************************************************************)
(* SpecConcurrent: two crawl runs in one process, the daily job of the     *)
(* AsyncIOScheduler and the run of POST /crawl-and-sync.  Both are         *)
(* coroutines of one event loop: a run gives the loop up only where it     *)
(* awaits something that is not ready, which crawl_and_sync_events does    *)
(* during the crawl (HTTP, asyncio.to_thread, asyncio.sleep) and nowhere   *)
(* between sqlite3.connect and db.close().                                 *)
(***************************************************************************)
MaxRunRows == 2       \* SpecConcurrent: longest event list of one run

CrawlRuns == {"scheduled", "manual"}

NoRun == "none"

(* the events the two runs crawl: two share a place and a day, two share  *)
(* a title and a day                                                       *)
RunEvents ==
    {MakeEvent(1, 1, DEFAULT_LATITUDE, DEFAULT_LONGITUDE, <<1, "09:00">>),
     MakeEvent(2, 1, DEFAULT_LATITUDE, DEFAULT_LONGITUDE, <<1, "09:00">>),
     MakeEvent(2, 2, DEFAULT_LATITUDE, DEFAULT_LONGITUDE, <<1, "09:00">>)}

(* a suspended coroutine is resumed when the loop executes no other *)
LoopFreeAlways(loop) == TRUE

LoopFree(loop) == loop = NoRun

(* the code between two awaits is executed by the run that has the loop *)
HasLoop(run, loop) == loop = run

(* the rows of this run's transaction, not yet committed *)
InsertedRows(acc) ==
    SubSeq(acc.rows, Len(acc.rows) - acc.inserted + 1, Len(acc.rows))

(* db.commit(): the rows of the transaction join the committed ones *)
CommitRows(rows, acc) == AsRows(InsertedRows(acc), rows)

RowsDone(acc) == acc.inserted + acc.duplicate + acc.error

InitConcurrent ==
    /\ IdleButConc
    /\ cc_store = <<>>
    /\ cc_pc = [run \in CrawlRuns |-> "idle"]
    /\ cc_events = [run \in CrawlRuns |-> <<>>]
    /\ cc_work = [run \in CrawlRuns |-> NoWork]
    /\ cc_result = [run \in CrawlRuns |-> NoResult]
    /\ cc_loop = NoRun

(* the cron trigger fires, or the request arrives: the run starts and      *)
(* awaits its crawl                                                        *)
TriggerRun(run) ==
    /\ cc_pc[run] = "idle"
    /\ LoopFree(cc_loop)
    /\ cc_pc' = [cc_pc EXCEPT ![run] = "crawling"]
    /\ UNCHANGED <<cc_store, cc_events, cc_work, cc_result, cc_loop>>
    /\ UNCHANGED otherThanConc

(* what the run awaits becomes ready, whatever the loop is executing *)
CrawlFinishes(run) ==
    /\ cc_pc[run] = "crawling"
    /\ \E events \in SeqsUpTo(RunEvents, MaxRunRows) :
           cc_events' = [cc_events EXCEPT ![run] = events]
    /\ cc_pc' = [cc_pc EXCEPT ![run] = "crawled"]
    /\ UNCHANGED <<cc_store, cc_work, cc_result, cc_loop>>
    /\ UNCHANGED otherThanConc

(* the run is resumed with no event: "if not new_events: return" *)
ResumeWithoutEvents(run) ==
    /\ cc_pc[run] = "crawled"
    /\ LoopFree(cc_loop)
    /\ cc_events[run] = <<>>
    /\ cc_pc' = [cc_pc EXCEPT ![run] = "done"]
    /\ UNCHANGED <<cc_store, cc_events, cc_work, cc_result, cc_loop>>
    /\ UNCHANGED otherThanConc

(* the run is resumed: sqlite3.connect, db.execute("BEGIN TRANSACTION") *)
ResumeAndBegin(run) ==
    /\ cc_pc[run] = "crawled"
    /\ LoopFree(cc_loop)
    /\ cc_events[run] # <<>>
    /\ cc_pc' = [cc_pc EXCEPT ![run] = "loop"]
    /\ cc_work' = [cc_work EXCEPT ![run] = Counters(cc_store)]
    /\ cc_loop' = run
    /\ UNCHANGED <<cc_store, cc_events, cc_result>>
    /\ UNCHANGED otherThanConc

(* one iteration of "for i, event in enumerate(events)" of the run *)
SyncRunRow(run) ==
    /\ cc_pc[run] = "loop"
    /\ HasLoop(run, cc_loop)
    /\ RowsDone(cc_work[run]) < Len(cc_events[run])
    /\ \E fails \in BOOLEAN :
           cc_work' = [cc_work EXCEPT ![run] =
               SyncRow(@, cc_events[run][RowsDone(@) + 1], fails)]
    /\ UNCHANGED <<cc_store, cc_pc, cc_events, cc_result, cc_loop>>
    /\ UNCHANGED otherThanConc

(* db.commit(), return, db.close(): the run is over *)
CommitRun(run) ==
    /\ cc_pc[run] = "loop"
    /\ HasLoop(run, cc_loop)
    /\ RowsDone(cc_work[run]) = Len(cc_events[run])
    /\ cc_store' = CommitRows(cc_store, cc_work[run])
    /\ cc_result' = [cc_result EXCEPT ![run] = ResultOf(cc_work[run])]
    /\ cc_pc' = [cc_pc EXCEPT ![run] = "done"]
    /\ cc_loop' = NoRun
    /\ UNCHANGED <<cc_events, cc_work>>
    /\ UNCHANGED otherThanConc

(* db.commit() raises: db.rollback(), raise, db.close(); the run returns   *)
(* the error                                                               *)
CommitRunFails(run) ==
    /\ cc_pc[run] = "loop"
    /\ HasLoop(run, cc_loop)
    /\ RowsDone(cc_work[run]) = Len(cc_events[run])
    /\ cc_result' = [cc_result EXCEPT ![run] = Raised]
    /\ cc_pc' = [cc_pc EXCEPT ![run] = "done"]
    /\ cc_loop' = NoRun
    /\ UNCHANGED <<cc_store, cc_events, cc_work>>
    /\ UNCHANGED otherThanConc

NextConcurrent ==
    \E run \in CrawlRuns :
        \/ TriggerRun(run)
        \/ CrawlFinishes(run)
        \/ ResumeWithoutEvents(run)
        \/ ResumeAndBegin(run)
        \/ SyncRunRow(run)
        \/ CommitRun(run)
        \/ CommitRunFails(run)

SpecConcurrent == InitConcurrent /\ [][NextConcurrent]_vars

InBatch(run) == cc_pc[run] = "loop"

(* C26: of two crawl runs in one process, never both are inside their      *)
(* check-then-insert batch, so a batch runs from BEGIN to commit without   *)
(* a step of the other's; and no two committed events agree on             *)
(* (location_name, date(start_date)) or on (title, date(start_date)).      *)
BatchesSerializedKeysUnique ==
    /\ ~ (InBatch("scheduled") /\ InBatch("manual"))
    /\ KeysUnique(cc_store)

(* one run is inside its batch with an uncommitted insert while the other  *)
(* run, started before, has crawled an event that agrees with that insert  *)
(* and waits for the loop.                                                 *)
RunWaitsForBatchOfOtherWitness ==
    \E run, other \in CrawlRuns :
        /\ run # other
        /\ InBatch(run)
        /\ cc_work[run].inserted > 0
        /\ cc_pc[other] = "crawled"
        /\ \E i \in 1..Len(cc_events[other]) :
               Existing(InsertedRows(cc_work[run]), cc_events[other][i])

(***************************************************************************)
(* SpecBulk: NotificationService.send_bulk_alarm on a list of user ids.    *)
(* The sends of one batch are tasks of one asyncio.gather and end in any   *)
(* order; a send ends with a 200 response, another response, or an         *)
(* exception.                                                              *)
(***************************************************************************)
MaxBulkUsers == 3     \* SpecBulk: longest list of user ids

BATCH_SIZE == 100     \* settings.BATCH_SIZE

BulkUserIds == {"u1", "u2"}

SendOutcomes == {"ok", "error", "exception"}

NotSent == "none"

(* batch_size if batch_size > 0 else settings.BATCH_SIZE *)
ActualBatchSize(batch_size) ==
    IF batch_size > 0 THEN batch_size ELSE BATCH_SIZE

(* the positions of user_ids[i:i + actual_batch_size] *)
BatchPositions(i, size, n) ==
    {p \in 1..n : i < p /\ p <= i + size}

(* send_to_user returns {"success": False, ...} for a response other than *)
(* 200 and for an exception                                                *)
FailedResponseOnly(outcome) == outcome = "error"

Failed(outcome) == outcome # "ok"

Succeeded(outcome) == outcome = "ok"

NoBotId == [success |-> FALSE, error |-> "BOT_ID"]

BulkCounts(success_count, fail_count) ==
    [success |-> success_count, fail |-> fail_count]

BulkResult(count, users) ==
    [success |-> TRUE, total_sent |-> count.success,
     total_failed |-> count.fail, total_users |-> Len(users)]

(* the counting loop over batch_results *)
CountBatch(count, out, positions) ==
    BulkCounts(count.success + Cardinality({p \in positions : Succeeded(out[p])}),
               count.fail + Cardinality({p \in positions : Failed(out[p])}))

InitBulk ==
    /\ IdleButBulk
    /\ bk_users \in SeqsUpTo(BulkUserIds, MaxBulkUsers)
    /\ bk_size \in 0..MaxBulkUsers
    /\ bk_bot \in BOOLEAN
    /\ bk_pc = "input"
    /\ bk_i = 0
    /\ bk_sends = [p \in 1..Len(bk_users) |-> 0]
    /\ bk_out = [p \in 1..Len(bk_users) |-> NotSent]
    /\ bk_count = BulkCounts(0, 0)
    /\ bk_result = <<>>

(* if not settings.BOT_ID: return {"success": False, ...} *)
ReturnNoBotId ==
    /\ bk_pc = "input"
    /\ ~ bk_bot
    /\ bk_result' = NoBotId
    /\ bk_pc' = "done"
    /\ UNCHANGED <<bk_users, bk_size, bk_bot, bk_i, bk_sends, bk_out, bk_count>>
    /\ UNCHANGED otherThanBulk

(* the counters are set to 0 and the session is opened *)
OpenSession ==
    /\ bk_pc = "input"
    /\ bk_bot
    /\ bk_pc' = "batch"
    /\ UNCHANGED <<bk_users, bk_size, bk_bot, bk_i, bk_sends, bk_out, bk_count,
                   bk_result>>
    /\ UNCHANGED otherThanBulk

(* one more i of range(0, len(user_ids), actual_batch_size): a             *)
(* send_to_user per user id of the batch, handed to asyncio.gather         *)
StartBatch ==
    /\ bk_pc = "batch"
    /\ bk_i < Len(bk_users)
    /\ bk_sends' = [p \in 1..Len(bk_users) |->
           IF p \in BatchPositions(bk_i, ActualBatchSize(bk_size), Len(bk_users))
               THEN bk_sends[p] + 1
           ELSE bk_sends[p]]
    /\ bk_pc' = "gather"
    /\ UNCHANGED <<bk_users, bk_size, bk_bot, bk_i, bk_out, bk_count, bk_result>>
    /\ UNCHANGED otherThanBulk

(* one send of the batch ends *)
SendEnds ==
    /\ bk_pc = "gather"
    /\ \E p \in BatchPositions(bk_i, ActualBatchSize(bk_size), Len(bk_users)),
          outcome \in SendOutcomes :
           /\ bk_out[p] = NotSent
           /\ bk_out' = [bk_out EXCEPT ![p] = outcome]
    /\ UNCHANGED <<bk_users, bk_size, bk_bot, bk_pc, bk_i, bk_sends, bk_count,
                   bk_result>>
    /\ UNCHANGED otherThanBulk

(* asyncio.gather returns when every send of the batch has ended; the      *)
(* results are counted                                                     *)
GatherReturns ==
    /\ bk_pc = "gather"
    /\ \A p \in BatchPositions(bk_i, ActualBatchSize(bk_size), Len(bk_users)) :
           bk_out[p] # NotSent
    /\ bk_count' = CountBatch(bk_count, bk_out,
           BatchPositions(bk_i, ActualBatchSize(bk_size), Len(bk_users)))
    /\ bk_i' = bk_i + ActualBatchSize(bk_size)
    /\ bk_pc' = "batch"
    /\ UNCHANGED <<bk_users, bk_size, bk_bot, bk_sends, bk_out, bk_result>>
    /\ UNCHANGED otherThanBulk

(* the range is exhausted: the totals are returned *)
ReturnTotals ==
    /\ bk_pc = "batch"
    /\ bk_i >= Len(bk_users)
    /\ bk_result' = BulkResult(bk_count, bk_users)
    /\ bk_pc' = "done"
    /\ UNCHANGED <<bk_users, bk_size, bk_bot, bk_i, bk_sends, bk_out, bk_count>>
    /\ UNCHANGED otherThanBulk

NextBulk ==
    \/ ReturnNoBotId
    \/ OpenSession
    \/ StartBatch
    \/ SendEnds
    \/ GatherReturns
    \/ ReturnTotals

SpecBulk == InitBulk /\ [][NextBulk]_vars

(* the number of the batch a position of user_ids belongs to, from 0 *)
BatchOf(p) == (p - 1) \div ActualBatchSize(bk_size)

(* no send of a batch is made before every send of the batches before it   *)
(* has ended                                                               *)
BatchesInTurn ==
    \A p, q \in 1..Len(bk_users) :
        (BatchOf(q) < BatchOf(p) /\ bk_sends[p] > 0) => bk_out[q] # NotSent

(* one send per listed user id, and the totals add up to their number *)
OneSendEachTotalsAddUp ==
    /\ \A p \in 1..Len(bk_users) : bk_sends[p] = 1
    /\ "total_sent" \in DOMAIN bk_result
    /\ bk_result.total_sent + bk_result.total_failed = Len(bk_users)

(* C28 as stated: for any list of user ids and any positive batch size, a  *)
(* call that has returned made one send per listed user id, batch after    *)
(* batch, and returned total_sent + total_failed = the number of user ids. *)
BulkSendsEachOnceInBatches ==
    bk_size > 0 =>
        /\ BatchesInTurn
        /\ \A p \in 1..Len(bk_users) : bk_sends[p] <= 1
        /\ bk_pc = "done" => OneSendEachTotalsAddUp

(* C28, amended: the same when BOT_ID is configured. *)
BulkSendsEachOnceInBatchesWithBotId ==
    (bk_size > 0 /\ bk_bot) =>
        /\ BatchesInTurn
        /\ \A p \in 1..Len(bk_users) : bk_sends[p] <= 1
        /\ bk_pc = "done" => OneSendEachTotalsAddUp

(* a call with three user ids and batches of two has returned: the sends   *)
(* ended with a success, an error response and an exception, and the       *)
(* totals are 1 sent and 2 failed.                                         *)
MixedOutcomesInTwoBatchesWitness ==
    /\ bk_pc = "done"
    /\ bk_bot
    /\ Len(bk_users) = 3
    /\ bk_size = 2
    /\ {bk_out[p] : p \in 1..3} = SendOutcomes
    /\ bk_result.total_sent = 1
    /\ bk_result.total_failed = 2

(* s can be obtained from t by leaving out members *)
RECURSIVE IsSubsequence(_, _)
IsSubsequence(s, t) ==
    IF s = <<>> THEN TRUE
    ELSE IF t = <<>> THEN FALSE
    ELSE IF Head(s) = Head(t) THEN IsSubsequence(Tail(s), Tail(t))
    ELSE IsSubsequence(s, Tail(t))

(* the merged row is the input row with some of its tokens, in their order *)
RowCameFrom(new_row, row) ==
    /\ [new_row EXCEPT !.places = <<>>] = [row EXCEPT !.places = <<>>]
    /\ new_row.places # <<>>
    /\ IsSubsequence(new_row.places, row.places)

(* every merged row came from an input row of its own, in input order *)
RECURSIVE RowsCameFrom(_, _)
RowsCameFrom(out, combined) ==
    IF out = <<>> THEN TRUE
    ELSE IF combined = <<>> THEN FALSE
    ELSE \/ /\ RowCameFrom(Head(out), Head(combined))
            /\ RowsCameFrom(Tail(out), Tail(combined))
         \/ RowsCameFrom(out, Tail(combined))

KeysOf(rows) == {DedupKey(rows, pos) : pos \in TokenPositions(rows)}

(* every key of the inputs is the key of exactly one merged token *)
EachInputKeyOnce ==
    /\ KeysOf(merged) = KeysOf(smpa_list \o spatic_list)
    /\ \A a, b \in TokenPositions(merged) :
           a # b => DedupKey(merged, a) # DedupKey(merged, b)

MergedFromInputsInOrder == RowsCameFrom(merged, smpa_list \o spatic_list)

RemergeChangesNothing == MergeAndDeduplicate(merged, <<>>) = merged

(* C30: the Merger loses and invents nothing: every distinct (date,        *)
(* start_time, white-space-free place) key of the inputs occurs exactly    *)
(* once in the output, every output token occurs in the input row it came  *)
(* from, surviving rows and tokens keep their input order, and merging the *)
(* output again with an empty list returns it unchanged.                   *)
MergerLosesAndInventsNothing ==
    mpc = "done" =>
        /\ EachInputKeyOnce
        /\ MergedFromInputsInOrder
        /\ RemergeChangesNothing

==========================================================================
